---- MODULE Spec2Model ----
(***************************************************************************)
(* Verification model of the ECS runtime of goud_cade:                     *)
(*   EntityManager and World   packages/ecs/src/core/Entity.ts             *)
(*   ComponentStorage, System  README.md (Component.ts / System.ts part)   *)
(*   QueryBuilder              packages/ecs/src/core/index.ts              *)
(***************************************************************************)
EXTENDS Integers, Sequences, FiniteSets, TLC

(* ------------------------------ bounds --------------------------------- *)
\* cap of the id counter in the entity-manager specification
MaxIds == 6
\* cap of the world.on calls made by init hooks in one run
MaxInits == 3
\* cap of the handles requestAnimationFrame returns in one run
MaxHandles == 5
\* cap of the restart events emitted in one world.update
MaxRestarts == 1
\* the last column and the last row of the Snake grid
MaxCol == 1
\* cap of the snakes created by initEntities()
MaxSnakes == 2
\* cap of the id counter in the component-store specification
MaxEntities == 1
\* cap of the number of systems whose update changes the system list, per frame
MaxFrameMutations == 1
\* cap of the number of handler Sets ever allocated by on()
MaxSets == 2
\* entities created in the runs that compare the two query operations
MaxQueryEntities == 2
\* handler calls one emit may make when its handlers subscribe and unsubscribe
MaxVisits == 8

(* ------------------------- program constants --------------------------- *)
PRE_PHYSICS == 100
PHYSICS == 200

(* --------------------------- input universes --------------------------- *)
ComponentTypes == {"Transform", "Velocity"}
ComponentData == {1, 2}
SysNames == {"Input", "Movement", "Render"}
Priorities == {PRE_PHYSICS, PHYSICS}
\* a system object: readonly name and priority; id tells apart two objects
\* created with the same name and priority
SystemObjs ==
  [name : SysNames, priority : Priorities, id : {1}]
    \cup {[name |-> "Input", priority |-> PRE_PHYSICS, id |-> 2]}
\* the systems of the frames that emit events
FrameSystems == {o \in SystemObjs : o.priority = PHYSICS /\ o.name # "Input"}
Events == {"gameOver", "playSound"}
Handlers == {"h1", "h2"}
Payloads == {1, 2}
DeltaTimes == {16, 33}
ResourceNames == {"score", "gameOver"}
ResourceValues == {1, 2}

VARIABLES
  nextId,            \* createEntityManager: let nextId
  entities,          \* createEntityManager: Set<Entity>, in insertion order
  componentStorages, \* createWorld: Map<string, ComponentStorage>
  resources,         \* createWorld: Map<string, unknown>
  systems,           \* createWorld: System[]
  eventHandlers,     \* createWorld: Map<string, Set<EventHandler>>, event -> Set object
  handlerSets,       \* the Set<EventHandler> objects ever allocated, in allocation order
  closures,          \* the unsubscribe closures returned by on() so far
  frame,             \* position of the running World.update(dt), if any
  trace,             \* history: the callbacks invoked by the last call (or frame), in order
  lastCall,          \* history: the last call made from outside and whether it hit its target
  returned,          \* history: ids returned by create() since the last reset
  addOrder,          \* history: the listed systems in the order of their last addSystem
  retired,           \* history: the system objects last replaced by addSystem and not re-added
  live,              \* history: closures whose on() was called and not unsubscribed since
  game               \* createSnakeGame / createFlappyGame: the closure's variables and the
                     \* browser's animation frame callbacks

emVars == <<nextId, entities, returned>>
storeVars == <<componentStorages, resources>>
schedVars == <<systems, frame, addOrder, retired>>
busVars == <<eventHandlers, handlerSets, closures, live>>
vars == <<nextId, entities, componentStorages, resources, systems, eventHandlers,
          handlerSets, closures, frame, trace, lastCall, returned, addOrder, retired, live,
          game>>

(* ------------------------------ helpers -------------------------------- *)
Range(s) == {s[i] : i \in DOMAIN s}

\* Array.prototype.filter / Set.prototype.delete on an insertion-ordered list
Without(s, x) == SelectSeq(s, LAMBDA y : y # x)

\* faulty variant: an array push, which keeps a member that is added again
SetAdd_push(s, x) == Append(s, x)

\* faulty variant: a new member goes first
SetAdd_front(s, x) == IF x \in Range(s) THEN s ELSE <<x>> \o s

\* Set.prototype.add: a member keeps its place, a new one goes last
SetAdd(s, x) == IF x \in Range(s) THEN s ELSE Append(s, x)

\* Array.prototype.findIndex, 1-based; 0 where the source returns -1
\* matching: the elements on which the callback returns true
FindIndex(s, matching) ==
  IF \E i \in DOMAIN s : s[i] \in matching
  THEN CHOOSE i \in DOMAIN s : s[i] \in matching /\ \A j \in 1..(i - 1) : s[j] \notin matching
  ELSE 0

\* Array.prototype.splice(index, 1)
RemoveAt(s, i) == SubSeq(s, 1, i - 1) \o SubSeq(s, i + 1, Len(s))

\* Array.prototype.splice(index, 0, x)
InsertAt(s, i, x) == SubSeq(s, 1, i - 1) \o <<x>> \o SubSeq(s, i, Len(s))

(* ------------------- ComponentStorage (a Map<Entity, T>) ---------------- *)
\* a storage is the list of its [entity, data] entries in insertion order
createComponentStorage == <<>>

storageHas(st, e) == \E i \in DOMAIN st : st[i].entity = e

storageIndex(st, e) == CHOOSE i \in DOMAIN st : st[i].entity = e

\* Map.get: the data, or the empty set standing for undefined
storageGet(st, e) == IF storageHas(st, e) THEN {st[storageIndex(st, e)].data} ELSE {}

\* faulty variant: a key that is present keeps the value it has
storageSet_keepFirst(st, e, d) ==
  IF storageHas(st, e) THEN st ELSE Append(st, [entity |-> e, data |-> d])

\* Map.set: an existing key keeps its place and takes the new value
storageSet(st, e, d) ==
  IF storageHas(st, e)
  THEN [st EXCEPT ![storageIndex(st, e)] = [entity |-> e, data |-> d]]
  ELSE Append(st, [entity |-> e, data |-> d])

storageRemove(st, e) == IF storageHas(st, e) THEN RemoveAt(st, storageIndex(st, e)) ELSE st

storageEntities(st) == <<>> \o [i \in DOMAIN st |-> st[i].entity]

(* ----------------------------- EntityManager ---------------------------- *)
exists(e) == e \in Range(entities)
\* Array.from(entities): the Set's members in insertion order
getAll == entities
\* entities.size
count == Len(entities)

Call(op, hit) == [op |-> op, hit |-> hit]

IdleFrame == [active |-> FALSE, dt |-> 0, idx |-> 0, mutations |-> 0]

create_recycling(cap) ==
  LET free == {i \in 0..nextId : i \notin Range(entities)}
      entity == CHOOSE i \in free : \A j \in free : i <= j
  IN /\ nextId < cap
     /\ ~frame.active
     /\ nextId' = nextId + 1
     /\ entities' = SetAdd(entities, entity)
     /\ returned' = Append(returned, entity)
     /\ lastCall' = Call("create", TRUE)
     /\ UNCHANGED game
     /\ trace' = <<>>
     /\ UNCHANGED <<storeVars, schedVars, busVars>>

create(cap) ==
  /\ nextId < cap
  /\ ~frame.active
  /\ nextId' = nextId + 1
  /\ entities' = SetAdd(entities, nextId)
  /\ returned' = Append(returned, nextId)
  /\ lastCall' = Call("create", TRUE)
  /\ UNCHANGED game
  /\ trace' = <<>>
  /\ UNCHANGED <<storeVars, schedVars, busVars>>

\* faulty variant: destroying an entity also deletes its records
destroyEntity_purging(e) ==
  /\ ~frame.active
  /\ entities' = Without(entities, e)
  /\ componentStorages' =
       [t \in DOMAIN componentStorages |-> storageRemove(componentStorages[t], e)]
  /\ lastCall' = Call("entities.destroy", exists(e))
  /\ UNCHANGED game
  /\ trace' = <<>>
  /\ UNCHANGED <<nextId, returned, resources, schedVars, busVars>>

\* faulty variant: destroying an id that is not alive drops the newest entity
destroyEntity_popLast(e) ==
  /\ ~frame.active
  /\ entities' = IF exists(e) THEN Without(entities, e)
                 ELSE SubSeq(entities, 1, Len(entities) - 1)
  /\ lastCall' = Call("entities.destroy", exists(e))
  /\ UNCHANGED game
  /\ trace' = <<>>
  /\ UNCHANGED <<nextId, returned, storeVars, schedVars, busVars>>

destroyEntity(e) ==
  /\ ~frame.active
  /\ entities' = Without(entities, e)
  /\ lastCall' = Call("entities.destroy", exists(e))
  /\ UNCHANGED game
  /\ trace' = <<>>
  /\ UNCHANGED <<nextId, returned, storeVars, schedVars, busVars>>

clear ==
  /\ ~frame.active
  /\ entities' = <<>>
  /\ nextId' = 0
  /\ returned' = <<>>
  /\ lastCall' = Call("entities.clear", TRUE)
  /\ UNCHANGED game
  /\ trace' = <<>>
  /\ UNCHANGED <<storeVars, schedVars, busVars>>

(* ------------------------- World: component storage -------------------- *)
\* getStorage(type): the storages after the lookup, which creates a missing one
getStorage(type) ==
  IF type \in DOMAIN componentStorages
  THEN componentStorages
  ELSE componentStorages @@ (type :> createComponentStorage)

\* faulty variant: the type always gets a new, empty storage
registerComponent_reset(type) ==
  /\ ~frame.active
  /\ componentStorages' =
       [u \in DOMAIN componentStorages \cup {type} |->
          IF u = type THEN createComponentStorage ELSE componentStorages[u]]
  /\ lastCall' = Call("registerComponent", type \in DOMAIN componentStorages)
  /\ UNCHANGED game
  /\ trace' = <<>>
  /\ UNCHANGED <<emVars, resources, schedVars, busVars>>

registerComponent(type) ==
  /\ ~frame.active
  /\ componentStorages' =
       IF type \notin DOMAIN componentStorages
       THEN componentStorages @@ (type :> createComponentStorage)
       ELSE componentStorages
  /\ lastCall' = Call("registerComponent", type \in DOMAIN componentStorages)
  /\ UNCHANGED game
  /\ trace' = <<>>
  /\ UNCHANGED <<emVars, resources, schedVars, busVars>>

addComponent_unchecked(entity, type, data) ==
  /\ ~frame.active
  /\ componentStorages' = [getStorage(type) EXCEPT ![type] = storageSet(@, entity, data)]
  /\ lastCall' = Call("addComponent", exists(entity))
  /\ UNCHANGED game
  /\ trace' = <<>>
  /\ UNCHANGED <<emVars, resources, schedVars, busVars>>

addComponent(entity, type, data) ==
  /\ ~frame.active
  /\ IF ~exists(entity)
     THEN UNCHANGED componentStorages   \* console.warn, return
     ELSE componentStorages' =
            [getStorage(type) EXCEPT ![type] = storageSet(@, entity, data)]
  /\ lastCall' = Call("addComponent", exists(entity))
  /\ UNCHANGED game
  /\ trace' = <<>>
  /\ UNCHANGED <<emVars, resources, schedVars, busVars>>

\* the value getComponent returns: a singleton, or {} for undefined
getComponentResult(entity, type) == storageGet(getStorage(type)[type], entity)

\* getComponent goes through getStorage, which creates a missing storage
getComponent(entity, type) ==
  /\ ~frame.active
  /\ componentStorages' = getStorage(type)
  /\ lastCall' = Call("getComponent", getComponentResult(entity, type) # {})
  /\ UNCHANGED game
  /\ trace' = <<>>
  /\ UNCHANGED <<emVars, resources, schedVars, busVars>>

hasComponent(entity, type) ==
  IF type \in DOMAIN componentStorages
  THEN storageHas(componentStorages[type], entity)
  ELSE FALSE

removeComponent(entity, type) ==
  /\ ~frame.active
  /\ componentStorages' =
       IF type \in DOMAIN componentStorages
       THEN [componentStorages EXCEPT ![type] = storageRemove(@, entity)]
       ELSE componentStorages
  /\ lastCall' = Call("removeComponent", hasComponent(entity, type))
  /\ UNCHANGED game
  /\ trace' = <<>>
  /\ UNCHANGED <<emVars, resources, schedVars, busVars>>

\* faulty variant: nothing is removed when the entity is not alive
removeAllComponents_aliveOnly(entity) ==
  /\ ~frame.active
  /\ componentStorages' =
       IF exists(entity)
       THEN [t \in DOMAIN componentStorages |-> storageRemove(componentStorages[t], entity)]
       ELSE componentStorages
  /\ lastCall' = Call("removeAllComponents", \E t \in ComponentTypes : hasComponent(entity, t))
  /\ UNCHANGED game
  /\ trace' = <<>>
  /\ UNCHANGED <<emVars, resources, schedVars, busVars>>

removeAllComponents(entity) ==
  /\ ~frame.active
  /\ componentStorages' =
       [t \in DOMAIN componentStorages |-> storageRemove(componentStorages[t], entity)]
  /\ lastCall' = Call("removeAllComponents", \E t \in ComponentTypes : hasComponent(entity, t))
  /\ UNCHANGED game
  /\ trace' = <<>>
  /\ UNCHANGED <<emVars, resources, schedVars, busVars>>

\* faulty variant: the candidates of the first storage are returned unfiltered
query_firstOnly(components) ==
  IF Len(components) = 0 THEN entities
  ELSE IF components[1] \notin DOMAIN componentStorages THEN <<>>
  ELSE storageEntities(componentStorages[components[1]])

\* world.query(...components), components a list of type names
query(components) ==
  IF Len(components) = 0 THEN entities
  ELSE IF components[1] \notin DOMAIN componentStorages THEN <<>>
  ELSE SelectSeq(storageEntities(componentStorages[components[1]]),
                 LAMBDA e : \A i \in DOMAIN components : hasComponent(e, components[i]))

(* --------------------------- World: resources --------------------------- *)
\* faulty variant: the table keeps one value, whatever the name
setResource_single(name, value) ==
  /\ ~frame.active
  /\ resources' = (name :> value)
  /\ lastCall' = Call("setResource", name \in DOMAIN resources)
  /\ UNCHANGED game
  /\ trace' = <<>>
  /\ frame' = IdleFrame
  /\ UNCHANGED <<emVars, componentStorages, systems, addOrder, retired, busVars>>

\* resources.set(name, value)
setResource(name, value) ==
  /\ ~frame.active
  /\ resources' =
       IF name \in DOMAIN resources
       THEN [resources EXCEPT ![name] = value]
       ELSE resources @@ (name :> value)
  /\ lastCall' = Call("setResource", name \in DOMAIN resources)
  /\ UNCHANGED game
  /\ trace' = <<>>
  /\ frame' = IdleFrame
  /\ UNCHANGED <<emVars, componentStorages, systems, addOrder, retired, busVars>>

\* resources.get(name): a singleton, or {} for undefined
getResource(name) == IF name \in DOMAIN resources THEN {resources[name]} ELSE {}

(* ------------------------- QueryBuilder (index.ts) ---------------------- *)
\* faulty variant: the without list is not applied when the with list is empty
execute_withOnly(withComponents, withoutComponents) ==
  SelectSeq(entities, LAMBDA entity :
    /\ \A i \in DOMAIN withComponents : hasComponent(entity, withComponents[i])
    /\ Len(withComponents) = 0
         \/ \A j \in DOMAIN withoutComponents : ~hasComponent(entity, withoutComponents[j]))

\* query().with(...withComponents).without(...withoutComponents).execute(world)
execute(withComponents, withoutComponents) ==
  SelectSeq(entities, LAMBDA entity :
    /\ \A i \in DOMAIN withComponents : hasComponent(entity, withComponents[i])
    /\ \A j \in DOMAIN withoutComponents : ~hasComponent(entity, withoutComponents[j]))

(* ------------------------------ call history --------------------------- *)
NoSys == [name |-> "", priority |-> 0, id |-> 0]

\* what a callback can read of the World through its argument: the alive
\* entities, the component records and the resources
View(ents, storages, res) ==
  [alive |-> ents,
   records |-> UNION {{<<t, storages[t][i].entity, storages[t][i].data>> :
                         i \in DOMAIN storages[t]} : t \in DOMAIN storages},
   resources |-> {<<k, res[k]>> : k \in DOMAIN res}]
NoView == [alive |-> <<>>, records |-> {}, resources |-> {}]

Entry(k) ==
  [k |-> k, sys |-> NoSys, h |-> "", event |-> "", data |-> 0, dt |-> 0,
   listed |-> FALSE, retired |-> FALSE, subs |-> <<>>, seen |-> NoView]

\* a lifecycle hook (init or cleanup) of sys starts; listed: getSystem(sys.name) is sys
HookEntry(k, sys, listed) == [Entry(k) EXCEPT !.sys = sys, !.listed = listed]
\* sys.update(world, dt) starts
UpdateEntry(sys, dt, wasRetired) ==
  [Entry("update") EXCEPT !.sys = sys, !.dt = dt, !.retired = wasRetired]
\* sys.update(world, dt) returns
ReturnEntry(sys) == [Entry("return") EXCEPT !.sys = sys]
\* world.emit(event, data) is called; subs: the handlers subscribed at that moment
EmitEntry(event, data, subs) ==
  [Entry("emit") EXCEPT !.event = event, !.data = data, !.subs = subs]
\* handler(data) is called for event, and returns
HandlerEntry(h, event, data) ==
  [Entry("handler") EXCEPT !.h = h, !.event = event, !.data = data]

(* ------------------------------ World: events --------------------------- *)
\* the Set registered for event, as a list in insertion order; <<>> if none
handlersOf(event) ==
  IF event \in DOMAIN eventHandlers THEN handlerSets[eventHandlers[event]] ELSE <<>>

\* faulty variant: the handlers are called last registered first
dispatch_reversed(handlers, event, data) ==
  [i \in DOMAIN handlers |-> HandlerEntry(handlers[Len(handlers) + 1 - i], event, data)]

\* for (const handler of handlers) handler(data)
dispatch(handlers, event, data) ==
  [i \in DOMAIN handlers |-> HandlerEntry(handlers[i], event, data)]

\* world.emit(event, data): the callbacks it runs, in order
emitLog(event, data) ==
  <<EmitEntry(event, data, handlersOf(event))>> \o dispatch(handlersOf(event), event, data)

emit(event, data) ==
  /\ ~frame.active
  /\ trace' = emitLog(event, data)
  /\ lastCall' = Call("emit", handlersOf(event) # <<>>)
  /\ UNCHANGED game
  /\ frame' = IdleFrame
  /\ UNCHANGED <<emVars, storeVars, systems, addOrder, retired, busVars>>

\* the closure returned by on(): it captures the Set object and the handler
Closure(set, handler, event) == [set |-> set, handler |-> handler, event |-> event]

on(event, handler) ==
  /\ ~frame.active
  /\ IF event \notin DOMAIN eventHandlers
     THEN /\ Len(handlerSets) < MaxSets
          /\ handlerSets' = Append(handlerSets, <<handler>>)
          /\ eventHandlers' = eventHandlers @@ (event :> Len(handlerSets) + 1)
     ELSE /\ handlerSets' = [handlerSets EXCEPT ![eventHandlers[event]] = SetAdd(@, handler)]
          /\ UNCHANGED eventHandlers
  /\ closures' = closures \cup {Closure(eventHandlers'[event], handler, event)}
  /\ live' = SetAdd(live, Closure(eventHandlers'[event], handler, event))
  /\ trace' = <<>>
  /\ lastCall' = Call("on", handler \in Range(handlersOf(event)))
  /\ UNCHANGED game
  /\ frame' = IdleFrame
  /\ UNCHANGED <<emVars, storeVars, systems, addOrder, retired>>

\* faulty variant: the closure clears the whole Set
unsubscribe_clearsSet(c) ==
  /\ ~frame.active
  /\ c \in closures
  /\ handlerSets' = [handlerSets EXCEPT ![c.set] = <<>>]
  /\ live' = Without(live, c)
  /\ trace' = <<>>
  /\ lastCall' = Call("unsubscribe", c.handler \in Range(handlerSets[c.set]))
  /\ UNCHANGED game
  /\ frame' = IdleFrame
  /\ UNCHANGED <<emVars, storeVars, systems, addOrder, retired, eventHandlers, closures>>

\* calling a closure returned by on(): handlers?.delete(handler)
unsubscribe(c) ==
  /\ ~frame.active
  /\ c \in closures
  /\ handlerSets' = [handlerSets EXCEPT ![c.set] = Without(@, c.handler)]
  /\ live' = Without(live, c)
  /\ trace' = <<>>
  /\ lastCall' = Call("unsubscribe", c.handler \in Range(handlerSets[c.set]))
  /\ UNCHANGED game
  /\ frame' = IdleFrame
  /\ UNCHANGED <<emVars, storeVars, systems, addOrder, retired, eventHandlers, closures>>

(* --------------- emit whose handlers subscribe and unsubscribe ---------- *)
\* the handlers of the runs in which handlers change the Set being dispatched
LiveHandlers == Handlers \cup {"h3"}

\* what a handler does when it is called: nothing, call the unsubscribe
\* function of handler h for the event being dispatched, or world.on(event, h)
Act(k, h) == [k |-> k, h |-> h]
HandlerActs ==
  {Act("nothing", "")} \cup {Act("unsubscribe", h) : h \in Handlers}
                       \cup {Act("on", h) : h \in LiveHandlers \ {"h1"}}

\* the dispatch of emit at its start: the Set it iterates (by reference: set
\* is its identity, members its contents), the iterator's position, the calls
\* made so far, and the closures handed out
DispatchStart(set) ==
  [set |-> set, members |-> handlerSets[set], pos |-> 0, log |-> <<>>,
   closures |-> closures, live |-> live, visits |-> 0]

\* faulty variant: the iterator's position is not kept on the member it reached
deleteLive_noShift(d, h) == [d EXCEPT !.members = Without(@, h)]

\* Set.prototype.delete under a running iterator: the members before the
\* iterator's position stay visited, the others stay to be visited
deleteLive(d, h) ==
  LET index == FindIndex(d.members, {h})
  IN [d EXCEPT !.members = Without(@, h),
               !.pos = IF index # 0 /\ index <= d.pos THEN @ - 1 ELSE @]

\* the running handler calls world.on or an unsubscribe function for handler a.h
CallEntry(a) == [Entry(a.k) EXCEPT !.h = a.h]

\* faulty variant: the iterator works on a copy taken when emit starts
runHandler_snapshot(d, event, data, a) ==
  LET handler == d.members[d.pos + 1]
  IN [d EXCEPT !.pos = @ + 1, !.visits = @ + 1,
               !.log = Append(@, HandlerEntry(handler, event, data))
                         \o (IF a.k = "nothing" THEN <<>> ELSE <<CallEntry(a)>>)]

\* handler(data), the handler doing a; the iterator has moved on to it
runHandler(d, event, data, a) ==
  LET handler == d.members[d.pos + 1]
      called == [d EXCEPT !.pos = @ + 1, !.visits = @ + 1,
                          !.log = Append(@, HandlerEntry(handler, event, data))]
      c == Closure(d.set, a.h, event)
  IN CASE a.k = "unsubscribe" /\ c \in called.closures ->
            [deleteLive(called, a.h) EXCEPT !.live = Without(@, c),
                                            !.log = Append(@, CallEntry(a))]
       [] a.k = "on" ->
            [called EXCEPT !.members = SetAdd(@, a.h),
                           !.closures = @ \cup {c},
                           !.live = SetAdd(@, c),
                           !.log = Append(@, CallEntry(a))]
       [] OTHER -> called

RECURSIVE dispatchLive(_, _, _, _)
\* for (const handler of handlers) handler(data), on the live Set
dispatchLive(d, event, data, acts) ==
  IF d.pos >= Len(d.members) \/ d.visits >= MaxVisits THEN d
  ELSE dispatchLive(runHandler(d, event, data, acts[d.members[d.pos + 1]]),
                    event, data, acts)

\* world.emit(event, data), each handler h doing acts[h] when it is called
emitWith(event, data, acts) ==
  /\ ~frame.active
  /\ IF event \in DOMAIN eventHandlers
     THEN LET d == dispatchLive(DispatchStart(eventHandlers[event]), event, data, acts)
          IN /\ d.pos >= Len(d.members)
             /\ handlerSets' = [handlerSets EXCEPT ![d.set] = d.members]
             /\ closures' = d.closures
             /\ live' = d.live
             /\ trace' = <<EmitEntry(event, data, handlersOf(event))>> \o d.log
     ELSE /\ trace' = <<EmitEntry(event, data, <<>>)>>
          /\ UNCHANGED <<handlerSets, closures, live>>
  /\ lastCall' = Call("emit", handlersOf(event) # <<>>)
  /\ UNCHANGED game
  /\ frame' = IdleFrame
  /\ UNCHANGED <<emVars, storeVars, systems, addOrder, retired, eventHandlers>>

(* ----------------------------- World: systems --------------------------- *)
\* world.getSystem(name) on a list: a singleton, or {} for undefined
getSystem(list, name) ==
  IF \E i \in DOMAIN list : list[i].name = name
  THEN {list[FindIndex(list, {s \in Range(list) : s.name = name})]}
  ELSE {}

\* faulty variant: the new system is always pushed at the end
insertSystem_push(list, system) == Append(list, system)

\* faulty variant: the new system goes before the systems of equal priority
insertSystem_unstable(list, system) ==
  LET insertIndex == FindIndex(list, {s \in Range(list) : s.priority >= system.priority})
  IN IF insertIndex = 0 THEN Append(list, system) ELSE InsertAt(list, insertIndex, system)

\* systems.findIndex((s) => s.priority > system.priority), then push or splice
insertSystem(list, system) ==
  LET insertIndex == FindIndex(list, {s \in Range(list) : s.priority > system.priority})
  IN IF insertIndex = 0 THEN Append(list, system) ELSE InsertAt(list, insertIndex, system)

\* the part of the scheduler a call works on: list, callbacks run so far, history
Sched == [systems |-> systems, log |-> <<>>, addOrder |-> addOrder, retired |-> retired]

\* history: the listed systems in the order of their last addSystem call
AddOrderAfter(order, list, added) ==
  SelectSeq(order, LAMBDA s : s \in Range(list) /\ s \notin added)
    \o SelectSeq(list, LAMBDA s : s \in added)

\* faulty variant: the system of the same name is neither cleaned up nor removed
schedAdd_keepOld(r, system) ==
  LET existingIndex == FindIndex(r.systems, {s \in Range(r.systems) : s.name = system.name})
      existing == r.systems[existingIndex]
      inserted == insertSystem(r.systems, system)
  IN [systems |-> inserted,
      log |-> Append(r.log, HookEntry("init", system,
                                      system \in getSystem(inserted, system.name))),
      addOrder |-> AddOrderAfter(r.addOrder, inserted, {system}),
      retired |-> IF existingIndex # 0 /\ existing # system
                  THEN {existing}
                  ELSE r.retired \ {system}]

\* faulty variant: the existing system is looked up by object identity, not by name
schedAdd_byIdentity(r, system) ==
  LET existingIndex == FindIndex(r.systems, {s \in Range(r.systems) : s = system})
      existing == r.systems[existingIndex]
      cleaned ==
        IF existingIndex # 0
        THEN Append(r.log, HookEntry("cleanup", existing,
                                     existing \in getSystem(r.systems, existing.name)))
        ELSE r.log
      removed == IF existingIndex # 0 THEN RemoveAt(r.systems, existingIndex) ELSE r.systems
      inserted == insertSystem(removed, system)
  IN [systems |-> inserted,
      log |-> Append(cleaned, HookEntry("init", system,
                                        system \in getSystem(inserted, system.name))),
      addOrder |-> AddOrderAfter(r.addOrder, inserted, {system}),
      retired |-> r.retired \ {system}]

\* faulty variant: init runs before the new system is inserted
schedAdd_initFirst(r, system) ==
  LET existingIndex == FindIndex(r.systems, {s \in Range(r.systems) : s.name = system.name})
      existing == r.systems[existingIndex]
      cleaned ==
        IF existingIndex # 0
        THEN Append(r.log, HookEntry("cleanup", existing,
                                     existing \in getSystem(r.systems, existing.name)))
        ELSE r.log
      removed == IF existingIndex # 0 THEN RemoveAt(r.systems, existingIndex) ELSE r.systems
      inserted == insertSystem(removed, system)
  IN [systems |-> inserted,
      log |-> Append(cleaned, HookEntry("init", system,
                                        system \in getSystem(removed, system.name))),
      addOrder |-> AddOrderAfter(r.addOrder, inserted, {system}),
      retired |-> IF existingIndex # 0 /\ existing # system
                  THEN {existing}
                  ELSE r.retired \ {system}]

\* addSystem(system) applied to r
schedAdd(r, system) ==
  LET existingIndex == FindIndex(r.systems, {s \in Range(r.systems) : s.name = system.name})
      existing == r.systems[existingIndex]
      cleaned ==
        IF existingIndex # 0
        THEN Append(r.log, HookEntry("cleanup", existing,
                                     existing \in getSystem(r.systems, existing.name)))
        ELSE r.log
      removed == IF existingIndex # 0 THEN RemoveAt(r.systems, existingIndex) ELSE r.systems
      inserted == insertSystem(removed, system)
  IN [systems |-> inserted,
      log |-> Append(cleaned, HookEntry("init", system,
                                        system \in getSystem(inserted, system.name))),
      addOrder |-> AddOrderAfter(r.addOrder, inserted, {system}),
      retired |-> IF existingIndex # 0 /\ existing # system
                  THEN {existing}
                  ELSE r.retired \ {system}]

\* faulty variant: the system is spliced out before its cleanup runs
schedRemove_spliceFirst(r, name) ==
  LET index == FindIndex(r.systems, {s \in Range(r.systems) : s.name = name})
      system == r.systems[index]
  IN IF index # 0
     THEN [r EXCEPT
             !.log = Append(@, HookEntry("cleanup", system,
                                         system \in getSystem(RemoveAt(r.systems, index), name))),
             !.systems = RemoveAt(@, index),
             !.addOrder = AddOrderAfter(@, RemoveAt(r.systems, index), {})]
     ELSE r

\* removeSystem(name) applied to r
schedRemove(r, name) ==
  LET index == FindIndex(r.systems, {s \in Range(r.systems) : s.name = name})
      system == r.systems[index]
  IN IF index # 0
     THEN [r EXCEPT
             !.log = Append(@, HookEntry("cleanup", system,
                                         system \in getSystem(r.systems, name))),
             !.systems = RemoveAt(@, index),
             !.addOrder = AddOrderAfter(@, RemoveAt(r.systems, index), {})]
     ELSE r

addSystem(system) ==
  /\ ~frame.active
  /\ systems' = schedAdd(Sched, system).systems
  /\ trace' = schedAdd(Sched, system).log
  /\ addOrder' = schedAdd(Sched, system).addOrder
  /\ retired' = schedAdd(Sched, system).retired
  /\ frame' = IdleFrame
  /\ lastCall' = Call("addSystem", getSystem(systems, system.name) # {})
  /\ UNCHANGED game
  /\ UNCHANGED <<emVars, storeVars, busVars>>

removeSystem(name) ==
  /\ ~frame.active
  /\ systems' = schedRemove(Sched, name).systems
  /\ trace' = schedRemove(Sched, name).log
  /\ addOrder' = schedRemove(Sched, name).addOrder
  /\ frame' = IdleFrame
  /\ lastCall' = Call("removeSystem", getSystem(systems, name) # {})
  /\ UNCHANGED game
  /\ UNCHANGED <<emVars, storeVars, busVars, retired>>

(* ------------- systems whose hooks subscribe and unsubscribe ------------ *)
\* the event the init hook of the Snake movement system subscribes to
RestartEvent == "restart"
\* what an init hook does (nothing, or world.on(RestartEvent, () => ...)) and
\* what a cleanup hook does (nothing, or call the unsubscribe functions its
\* system's init hooks were given)
InitHooks == {"nothing", "on"}
CleanupHooks == {"nothing", "unsubscribe"}

\* the arrow function the n-th world.on call of the run creates in the init of
\* system: every init call creates a new function object
HookHandler(system, n) ==
  system.name \o ToString(system.id) \o "#" \o ToString(n)

\* the event table a hook works on
BusNow ==
  [eventHandlers |-> eventHandlers, handlerSets |-> handlerSets,
   closures |-> closures, live |-> live]

\* world.on(event, handler) applied to the event table b
onIn(b, event, handler) ==
  LET created == event \notin DOMAIN b.eventHandlers
      set == IF created THEN Len(b.handlerSets) + 1 ELSE b.eventHandlers[event]
      c == Closure(set, handler, event)
  IN [eventHandlers |-> IF created THEN b.eventHandlers @@ (event :> set)
                        ELSE b.eventHandlers,
      handlerSets |-> IF created THEN Append(b.handlerSets, <<handler>>)
                      ELSE [b.handlerSets EXCEPT ![set] = SetAdd(@, handler)],
      closures |-> b.closures \cup {c},
      live |-> SetAdd(b.live, c)]

\* the unsubscribe closure c called on the event table b
unsubscribeIn(b, c) ==
  [b EXCEPT !.handlerSets = [@ EXCEPT ![c.set] = Without(@, c.handler)],
            !.live = Without(@, c)]

\* the unsubscribe functions the init hooks of system were given
Owned(b, system) ==
  {c \in b.closures : \E n \in 1..MaxInits : c.handler = HookHandler(system, n)}

RECURSIVE unsubscribeAll(_, _)
unsubscribeAll(b, cs) ==
  IF cs = {} THEN b
  ELSE LET c == CHOOSE x \in cs : TRUE
       IN unsubscribeAll(unsubscribeIn(b, c), cs \ {c})

\* faulty variant: the World drops the handlers of a system it removes
cleanupHook_dropping(b, existing, cb) ==
  unsubscribeAll(b, UNION {Owned(b, s) : s \in existing})

\* existing.cleanup?.(world) for the systems in existing (none or one), the
\* hook doing cb
cleanupHook(b, existing, cb) ==
  IF cb = "unsubscribe"
  THEN unsubscribeAll(b, UNION {Owned(b, s) : s \in existing})
  ELSE b

\* system.init?.(world), the hook doing ib
initHook(b, system, ib) ==
  IF ib = "on"
  THEN onIn(b, RestartEvent, HookHandler(system, Cardinality(b.closures) + 1))
  ELSE b

\* addSystem(system): the cleanup of the system it replaces does cb, the init
\* of system does ib
addSystemWith(system, ib, cb) ==
  /\ ~frame.active
  /\ ib = "on" =>
       /\ Cardinality(closures) < MaxInits
       /\ RestartEvent \in DOMAIN eventHandlers \/ Len(handlerSets) < MaxSets
  /\ systems' = schedAdd(Sched, system).systems
  /\ trace' = schedAdd(Sched, system).log
  /\ addOrder' = schedAdd(Sched, system).addOrder
  /\ retired' = schedAdd(Sched, system).retired
  /\ LET b == initHook(cleanupHook(BusNow, getSystem(systems, system.name), cb),
                       system, ib)
     IN /\ eventHandlers' = b.eventHandlers
        /\ handlerSets' = b.handlerSets
        /\ closures' = b.closures
        /\ live' = b.live
  /\ frame' = IdleFrame
  /\ lastCall' = Call("addSystem", getSystem(systems, system.name) # {})
  /\ UNCHANGED game
  /\ UNCHANGED <<emVars, storeVars>>

\* removeSystem(name): the cleanup of the removed system does cb
removeSystemWith(name, cb) ==
  /\ ~frame.active
  /\ systems' = schedRemove(Sched, name).systems
  /\ trace' = schedRemove(Sched, name).log
  /\ addOrder' = schedRemove(Sched, name).addOrder
  /\ LET b == cleanupHook(BusNow, getSystem(systems, name), cb)
     IN /\ eventHandlers' = b.eventHandlers
        /\ handlerSets' = b.handlerSets
        /\ closures' = b.closures
        /\ live' = b.live
  /\ frame' = IdleFrame
  /\ lastCall' = Call("removeSystem", getSystem(systems, name) # {})
  /\ UNCHANGED game
  /\ UNCHANGED <<emVars, storeVars, retired>>

(* ------------------------------ World.update ---------------------------- *)
\* what the update of a system does in one frame
Does(k) == [k |-> k, sys |-> NoSys, name |-> "", event |-> "", data |-> 0]
SchedBehaviours ==
  {Does("nothing")}
    \cup {[Does("addSystem") EXCEPT !.sys = o] : o \in SystemObjs}
    \cup {[Does("removeSystem") EXCEPT !.name = n] : n \in SysNames}
EmitBehaviours ==
  {Does("nothing")}
    \cup {[Does("emit") EXCEPT !.event = e, !.data = d] : e \in Events, d \in Payloads}

MutatesList(b) == b.k \in {"addSystem", "removeSystem"}

\* faulty variant: an emitted event is queued and delivered after the update has returned
runSystem_deferred(r, system, deltaTime, b) ==
  LET started ==
        [r EXCEPT !.log = Append(@, UpdateEntry(system, deltaTime, system \in r.retired))]
      done ==
        CASE b.k = "addSystem" -> schedAdd(started, b.sys)
          [] b.k = "removeSystem" -> schedRemove(started, b.name)
          [] b.k = "emit" ->
               [started EXCEPT !.log = Append(@, EmitEntry(b.event, b.data,
                                                           handlersOf(b.event)))]
          [] OTHER -> started
      queued ==
        IF b.k = "emit" THEN dispatch(handlersOf(b.event), b.event, b.data) ELSE <<>>
  IN [done EXCEPT !.log = Append(@, ReturnEntry(system)) \o queued]

\* system.update(world, deltaTime) applied to r, the update doing b
runSystem(r, system, deltaTime, b) ==
  LET started ==
        [r EXCEPT !.log = Append(@, UpdateEntry(system, deltaTime, system \in r.retired))]
      done ==
        CASE b.k = "addSystem" -> schedAdd(started, b.sys)
          [] b.k = "removeSystem" -> schedRemove(started, b.name)
          [] b.k = "emit" -> [started EXCEPT !.log = @ \o emitLog(b.event, b.data)]
          [] OTHER -> started
  IN [done EXCEPT !.log = Append(@, ReturnEntry(system))]

\* faulty variant: the iterator advances by two
nextIndex_skip(idx) == idx + 2

\* the array iterator of for (const system of systems): the index after a step
nextIndex(idx) == idx + 1

\* update(deltaTime) is called: the iterator starts at the first element
updateBegin(deltaTime) ==
  /\ ~frame.active
  /\ frame' = [active |-> TRUE, dt |-> deltaTime, idx |-> 1, mutations |-> 0]
  /\ trace' = <<>>
  /\ lastCall' = Call("update", systems # <<>>)
  /\ UNCHANGED game
  /\ UNCHANGED <<emVars, storeVars, busVars, systems, addOrder, retired>>

\* one iteration of the loop: the iterator reads the live array
updateStep(b) ==
  /\ frame.active
  /\ frame.idx <= Len(systems)
  /\ MutatesList(b) => frame.mutations < MaxFrameMutations
  /\ LET r == runSystem([Sched EXCEPT !.log = trace], systems[frame.idx], frame.dt, b)
     IN /\ systems' = r.systems
        /\ trace' = r.log
        /\ addOrder' = r.addOrder
        /\ retired' = r.retired
  /\ frame' = [frame EXCEPT !.idx = nextIndex(@),
                            !.mutations = IF MutatesList(b) THEN @ + 1 ELSE @]
  /\ UNCHANGED <<emVars, storeVars, busVars, lastCall, game>>

\* the iterator is past the end of the live array: update returns
updateEnd ==
  /\ frame.active
  /\ frame.idx > Len(systems)
  /\ frame' = [frame EXCEPT !.active = FALSE]
  /\ UNCHANGED <<emVars, storeVars, busVars, systems, addOrder, retired, trace, lastCall, game>>

(* ------------------------------ World.destroy --------------------------- *)
\* the World inside destroy(): the closure's collections and the callbacks run
WorldNow ==
  [systems |-> systems, componentStorages |-> componentStorages, entities |-> entities,
   nextId |-> nextId, eventHandlers |-> eventHandlers, resources |-> resources,
   log |-> <<>>]

\* the handlers emit finds for event in the Map eh
handlersIn(eh, event) == IF event \in DOMAIN eh THEN handlerSets[eh[event]] ELSE <<>>

\* system.cleanup?.(world) on the World w, the hook doing b
cleanupLog(w, system, b) ==
  <<[HookEntry("cleanup", system, system \in getSystem(w.systems, system.name))
       EXCEPT !.seen = View(w.entities, w.componentStorages, w.resources)]>>
    \o (IF b.k = "emit"
        THEN <<EmitEntry(b.event, b.data, handlersIn(w.eventHandlers, b.event))>>
               \o dispatch(handlersIn(w.eventHandlers, b.event), b.event, b.data)
        ELSE <<>>)

RECURSIVE cleanupFrom(_, _, _)
\* for (const system of systems) system.cleanup?.(world), from index i on
cleanupFrom(w, i, b) ==
  IF i > Len(w.systems) THEN w
  ELSE cleanupFrom([w EXCEPT !.log = @ \o cleanupLog(w, w.systems[i], b)], i + 1, b)

\* the cleanup loop, then systems.length = 0
cleanupSystems(w, b) == [cleanupFrom(w, 1, b) EXCEPT !.systems = <<>>]
\* storage.clear() on every storage, then componentStorages.clear()
clearStorages(w) == [w EXCEPT !.componentStorages = <<>>]
\* entityManager.clear()
clearEntities(w) == [w EXCEPT !.entities = <<>>, !.nextId = 0]
\* faulty variant: the resources are left in place
clearEvents_only(w) == [w EXCEPT !.eventHandlers = <<>>]
\* eventHandlers.clear(); resources.clear()
clearEventsAndResources(w) == [w EXCEPT !.eventHandlers = <<>>, !.resources = <<>>]

\* faulty variant: the collections are cleared before the cleanup hooks run
destroyed_clearFirst(w, b) ==
  cleanupSystems(clearEventsAndResources(clearEntities(clearStorages(w))), b)

\* the World after the statements of destroy() have run in order
destroyed(w, b) ==
  clearEventsAndResources(clearEntities(clearStorages(cleanupSystems(w, b))))

\* the behaviours of a cleanup hook
CleanupBehaviours ==
  {Does("nothing")}
    \cup {[Does("emit") EXCEPT !.event = e, !.data = d] : e \in Events, d \in Payloads}

\* world.destroy(), every cleanup hook doing b
destroyWorld(b) ==
  /\ ~frame.active
  /\ LET w == destroyed(WorldNow, b)
     IN /\ trace' = w.log
        /\ systems' = w.systems
        /\ componentStorages' = w.componentStorages
        /\ entities' = w.entities
        /\ nextId' = w.nextId
        /\ eventHandlers' = w.eventHandlers
        /\ resources' = w.resources
  /\ returned' = <<>>
  /\ addOrder' = <<>>
  /\ frame' = IdleFrame
  /\ lastCall' = Call("destroy", TRUE)
  /\ UNCHANGED <<handlerSets, closures, live, retired>>

\* world.destroy() called on a World that no game instance owns
destroyWith(b) == destroyWorld(b) /\ UNCHANGED game

\* world.destroy() with hooks that only release what they hold
destroy == destroyWith(Does("nothing"))

(* ------------------- game instances: Snake and Flappy ------------------- *)
GameKinds == {"snake", "flappy"}

\* the variables of createSnakeGame / createFlappyGame and the browser's side:
\*   isRunning, animationFrame   the closure's variables (0: null)
\*   pending     the requestAnimationFrame callbacks requested and neither
\*               cancelled nor run, in request order
\*   nextHandle  the handle the next requestAnimationFrame returns
\*   inFrame, queue   the browser runs the callbacks of an animation frame:
\*               those that were pending when the frame began and have not
\*               run yet
\*   updates     history: the world.update calls of the current animation frame
\*   restarts    history: the restart events emitted in the last callback
\*   initRan     history: the last call ran initEntities
NewGame(kind) ==
  [kind |-> kind, isRunning |-> FALSE, animationFrame |-> 0, pending |-> <<>>,
   nextHandle |-> 1, inFrame |-> FALSE, queue |-> <<>>, updates |-> 0,
   restarts |-> 0, initRan |-> FALSE]
\* no game instance was created
NoGame == NewGame("none")

\* RestartSystem / FlappyRestartSystem, the system that emits restart
RestartSystem == [name |-> "RestartSystem", priority |-> 20, id |-> 1]
\* the handler () => { reset(); } the game registers for restart
ResetHandler == "reset"

\* window.requestAnimationFrame(gameLoop): the handle returned is g.nextHandle
requestAnimationFrame(g) ==
  [g EXCEPT !.pending = Append(@, g.nextHandle), !.nextHandle = @ + 1]

\* window.cancelAnimationFrame(handle): nothing happens for a callback that
\* has run or is running
cancelAnimationFrame(g, handle) ==
  [g EXCEPT !.pending = Without(@, handle), !.queue = Without(@, handle)]

stop(g) ==
  LET halted == [g EXCEPT !.isRunning = FALSE]
  IN IF g.animationFrame # 0
     THEN [cancelAnimationFrame(halted, g.animationFrame) EXCEPT !.animationFrame = 0]
     ELSE halted

\* faulty variant: start does not look at isRunning
start_unguarded(g) ==
  [requestAnimationFrame(g) EXCEPT !.isRunning = TRUE,
                                   !.animationFrame = g.nextHandle,
                                   !.initRan = TRUE]

\* start(): initEntities(), playSound, isRunning = true, request a frame
start(g) ==
  IF g.isRunning THEN g
  ELSE [requestAnimationFrame(g) EXCEPT !.isRunning = TRUE,
                                        !.animationFrame = g.nextHandle,
                                        !.initRan = TRUE]

reset(g) == start(stop(g))

RECURSIVE worldUpdate(_, _)
\* world.update(deltaTime) as the game sees it: the restart system emits
\* restart n times, and each emit runs the handler that calls reset()
worldUpdate(g, n) ==
  IF n = 0 THEN g
  ELSE worldUpdate([reset(g) EXCEPT !.restarts = @ + 1], n - 1)

\* snake/game.ts gameLoop(time)
gameLoopSnake(g, n) ==
  IF ~g.isRunning THEN g
  ELSE LET updated == worldUpdate([g EXCEPT !.updates = @ + 1], n)
       IN [requestAnimationFrame(updated) EXCEPT !.animationFrame = updated.nextHandle]

\* faulty variant: the next frame is requested whatever happened in update
gameLoopFlappy_unchecked(g, n) ==
  IF ~g.isRunning THEN g
  ELSE LET updated == worldUpdate([g EXCEPT !.updates = @ + 1], n)
       IN [requestAnimationFrame(updated) EXCEPT !.animationFrame = updated.nextHandle]

\* flappy/game.ts gameLoop(time)
gameLoopFlappy(g, n) ==
  IF ~g.isRunning THEN g
  ELSE LET currentFrame == g.animationFrame
           updated == worldUpdate([g EXCEPT !.updates = @ + 1], n)
       IN IF updated.isRunning /\ updated.animationFrame = currentFrame
          THEN [requestAnimationFrame(updated) EXCEPT
                  !.animationFrame = updated.nextHandle]
          ELSE updated

gameLoop(g, n) == IF g.kind = "flappy" THEN gameLoopFlappy(g, n) ELSE gameLoopSnake(g, n)

\* a call of a method of the game instance starts: history fields reset
Called(g) == [g EXCEPT !.initRan = FALSE, !.restarts = 0]

\* the requestAnimationFrame calls of one call stay under the cap
HandlesLeft(k) == game.nextHandle + k <= MaxHandles + 1

GameStart ==
  /\ ~game.inFrame /\ HandlesLeft(1)
  /\ game' = start(Called(game))
  /\ lastCall' = Call("start", ~game.isRunning)
  /\ trace' = <<>>
  /\ UNCHANGED <<emVars, storeVars, schedVars, busVars>>

GameStop ==
  /\ ~game.inFrame
  /\ game' = stop(Called(game))
  /\ lastCall' = Call("stop", game.isRunning)
  /\ trace' = <<>>
  /\ UNCHANGED <<emVars, storeVars, schedVars, busVars>>

GameReset ==
  /\ ~game.inFrame /\ HandlesLeft(1)
  /\ game' = reset(Called(game))
  /\ lastCall' = Call("reset", game.isRunning)
  /\ trace' = <<>>
  /\ UNCHANGED <<emVars, storeVars, schedVars, busVars>>

\* destroy(): stop(), then world.destroy()
GameDestroy ==
  /\ ~game.inFrame
  /\ game' = stop(Called(game))
  /\ destroyWorld(Does("nothing"))

\* the browser starts an animation frame: it will run the callbacks pending now
FrameBegin ==
  /\ ~game.inFrame
  /\ game.pending # <<>>
  /\ game' = [game EXCEPT !.inFrame = TRUE, !.queue = game.pending, !.pending = <<>>,
                          !.updates = 0]
  /\ UNCHANGED <<emVars, storeVars, schedVars, busVars, trace, lastCall>>

\* the browser runs the next callback of the frame: gameLoop(time), in which
\* world.update emits restart n times (never when the restart system is not
\* listed or the handler is not registered)
FrameCallback(n) ==
  /\ game.inFrame
  /\ game.queue # <<>>
  /\ HandlesLeft(n + 1)
  /\ n > 0 => /\ game.isRunning
              /\ RestartSystem \in Range(systems)
              /\ ResetHandler \in Range(handlersOf(RestartEvent))
  /\ game' = gameLoop([Called(game) EXCEPT !.queue = Tail(@)], n)
  /\ lastCall' = Call("gameLoop", game.isRunning)
  /\ trace' = <<>>
  /\ UNCHANGED <<emVars, storeVars, schedVars, busVars>>

\* every callback of the animation frame has run
FrameEnd ==
  /\ game.inFrame
  /\ game.queue = <<>>
  /\ game' = [game EXCEPT !.inFrame = FALSE]
  /\ UNCHANGED <<emVars, storeVars, schedVars, busVars, trace, lastCall>>

(* ----------------------- the systems of the Snake game ------------------ *)
Directions == {"UP", "DOWN", "LEFT", "RIGHT"}
\* the direction the input store holds when no direction key is down
Null == "null"
\* useInputStore.getState(): the part the systems read
InputStates == [direction : Directions \cup {Null}, action : BOOLEAN]

\* SNAKE_CONFIG.gameplay.startDirection, startPosition; SNAKE_CONFIG.grid
StartDirection == "RIGHT"
StartPosition == [col |-> 0, row |-> 0]
GridCols == MaxCol + 1
GridRows == MaxCol + 1


\* world.getComponent(entity, type) on the World w: a singleton, or {} for undefined
componentIn(w, entity, type) ==
  IF type \in DOMAIN w.componentStorages
  THEN storageGet(w.componentStorages[type], entity)
  ELSE {}

hasComponentIn(w, entity, type) == componentIn(w, entity, type) # {}

\* world.addComponent(entity, type, data) on the World w
addComponentIn(w, entity, type, data) ==
  IF entity \notin Range(w.entities) THEN w
  ELSE [w EXCEPT !.componentStorages =
          IF type \in DOMAIN @
          THEN [@ EXCEPT ![type] = storageSet(@, entity, data)]
          ELSE @ @@ (type :> storageSet(createComponentStorage, entity, data))]

\* world.query(...components) on the World w
queryIn(w, components) ==
  IF components[1] \notin DOMAIN w.componentStorages THEN <<>>
  ELSE SelectSeq(storageEntities(w.componentStorages[components[1]]),
                 LAMBDA e : \A i \in DOMAIN components : hasComponentIn(w, e, components[i]))

\* the one value of a singleton
The(s) == CHOOSE x \in s : TRUE

\* faulty variant: the press is reported in every frame in which the button is down
inputEntity_level(w, entity, inputState) ==
  LET receiver == componentIn(w, entity, "InputReceiver")
  IN IF receiver = {} \/ ~The(receiver).active THEN w
     ELSE LET directed ==
                IF hasComponentIn(w, entity, "DirectionInput")
                THEN LET current == The(componentIn(w, entity, "DirectionInput"))
                     IN addComponentIn(w, entity, "DirectionInput",
                          [lastDirection |-> current.direction,
                           direction |-> inputState.direction,
                           bufferedDirection |-> current.bufferedDirection])
                ELSE w
          IN IF hasComponentIn(directed, entity, "ActionInput")
             THEN addComponentIn(directed, entity, "ActionInput",
                    [action |-> inputState.action,
                     actionJustPressed |-> inputState.action,
                     interact |-> FALSE, back |-> FALSE])
             ELSE directed

\* InputSystem.update: the body of the loop, for one entity
inputEntity(w, entity, inputState) ==
  LET receiver == componentIn(w, entity, "InputReceiver")
  IN IF receiver = {} \/ ~The(receiver).active THEN w
     ELSE LET directed ==
                IF hasComponentIn(w, entity, "DirectionInput")
                THEN LET current == The(componentIn(w, entity, "DirectionInput"))
                     IN addComponentIn(w, entity, "DirectionInput",
                          [lastDirection |-> current.direction,
                           direction |-> inputState.direction,
                           bufferedDirection |-> current.bufferedDirection])
                ELSE w
          IN IF hasComponentIn(directed, entity, "ActionInput")
             THEN LET current == The(componentIn(directed, entity, "ActionInput"))
                  IN addComponentIn(directed, entity, "ActionInput",
                       [action |-> inputState.action,
                        actionJustPressed |-> inputState.action /\ ~current.action,
                        interact |-> FALSE, back |-> FALSE])
             ELSE directed

RECURSIVE inputFrom(_, _, _, _)
inputFrom(w, found, i, inputState) ==
  IF i > Len(found) THEN w
  ELSE inputFrom(inputEntity(w, found[i], inputState), found, i + 1, inputState)

\* InputSystem.update(world) with the input store holding inputState
inputUpdate(w, inputState) == inputFrom(w, queryIn(w, <<"InputReceiver">>), 1, inputState)

Opposite(direction) ==
  CASE direction = "UP" -> "DOWN"
    [] direction = "DOWN" -> "UP"
    [] direction = "LEFT" -> "RIGHT"
    [] direction = "RIGHT" -> "LEFT"
    [] OTHER -> ""

\* faulty variant: a reversal is let through
directionEntity_open(w, entity) == w

\* SnakeDirectionSystem.update: the body of the loop, for one entity
directionEntity(w, entity) ==
  LET segment == The(componentIn(w, entity, "SnakeSegment"))
      input == The(componentIn(w, entity, "DirectionInput"))
  IN IF segment.type # "head" THEN w
     ELSE IF input.direction = Null THEN w
     ELSE IF input.direction = Opposite(segment.direction)
     THEN addComponentIn(w, entity, "DirectionInput",
                         [input EXCEPT !.direction = segment.direction])
     ELSE w

RECURSIVE directionFrom(_, _, _)
directionFrom(w, heads, i) ==
  IF i > Len(heads) THEN w
  ELSE directionFrom(directionEntity(w, heads[i]), heads, i + 1)

\* SnakeDirectionSystem.update(world)
directionUpdate(w) == directionFrom(w, queryIn(w, <<"SnakeSegment", "DirectionInput">>), 1)

\* prefabs.ts createSnakeHead(world)
createSnakeHead(w) ==
  LET entity == w.nextId
      created == [w EXCEPT !.nextId = @ + 1, !.entities = SetAdd(@, entity)]
      positioned == addComponentIn(created, entity, "GridPosition", StartPosition)
      segmented == addComponentIn(positioned, entity, "SnakeSegment",
                     [type |-> "head", index |-> 0, direction |-> StartDirection])
      received == addComponentIn(segmented, entity, "InputReceiver",
                    [active |-> TRUE, playerId |-> 0])
      directed == addComponentIn(received, entity, "DirectionInput",
                    [direction |-> StartDirection, lastDirection |-> StartDirection,
                     bufferedDirection |-> Null])
  IN addComponentIn(directed, entity, "ActionInput",
       [action |-> FALSE, actionJustPressed |-> FALSE, interact |-> FALSE, back |-> FALSE])

\* game.ts initEntities(): every entity loses its components and is destroyed,
\* gameOver is reset, a new head is created
initEntities(w) ==
  createSnakeHead(
    [w EXCEPT !.componentStorages =
                [type \in DOMAIN @ |->
                   SelectSeq(@[type], LAMBDA r : r.entity \notin Range(w.entities))],
              !.entities = <<>>,
              !.resources = ("gameOver" :> FALSE)])

\* RestartSystem.update(world): the restart event it emits runs the game's
\* handler, reset(), which runs initEntities()
restartUpdate(w) ==
  IF ~w.resources["gameOver"] THEN w
  ELSE IF \E e \in Range(queryIn(w, <<"ActionInput">>)) :
            The(componentIn(w, e, "ActionInput")).actionJustPressed
       THEN initEntities(w)
       ELSE w

\* createSnakeMovementSystem().update(world, deltaTime) for a snake that is a
\* head; due: timeSinceMove has reached the current speed
movementUpdate(w, due) ==
  LET segments == queryIn(w, <<"SnakeSegment", "GridPosition">>)
  IN IF w.resources["gameOver"] \/ ~due \/ Len(segments) = 0 THEN w
     ELSE LET head == segments[1]
              segment == The(componentIn(w, head, "SnakeSegment"))
              pos == The(componentIn(w, head, "GridPosition"))
              input == componentIn(w, head, "DirectionInput")
              direction == IF input = {} \/ The(input).direction = Null
                           THEN segment.direction
                           ELSE The(input).direction
              newCol == CASE direction = "LEFT" -> pos.col - 1
                          [] direction = "RIGHT" -> pos.col + 1
                          [] OTHER -> pos.col
              newRow == CASE direction = "UP" -> pos.row - 1
                          [] direction = "DOWN" -> pos.row + 1
                          [] OTHER -> pos.row
          IN IF newCol < 0 \/ newCol >= GridCols \/ newRow < 0 \/ newRow >= GridRows
             THEN [w EXCEPT !.resources = [@ EXCEPT !["gameOver"] = TRUE]]
             ELSE addComponentIn(
                    addComponentIn(w, head, "GridPosition",
                                   [pos EXCEPT !.col = newCol, !.row = newRow]),
                    head, "SnakeSegment", [segment EXCEPT !.direction = direction])

\* one world.update of the running Snake game: the systems in priority order
snakeFrame(w, inputState, due) ==
  movementUpdate(restartUpdate(directionUpdate(inputUpdate(w, inputState))), due)

\* an animation frame of the running Snake game
SnakeFrame(inputState, due) ==
  /\ ~frame.active
  /\ \E w \in {snakeFrame(WorldNow, inputState, due)} :
        /\ w.nextId <= MaxSnakes
        /\ entities' = w.entities
        /\ nextId' = w.nextId
        /\ componentStorages' = w.componentStorages
        /\ resources' = w.resources
  /\ trace' = <<>>
  /\ lastCall' = Call("frame", inputState.action)
  /\ UNCHANGED <<returned, schedVars, busVars, game>>

\* the host switches the input of the head on or off:
\* world.addComponent(entity, InputReceiver, { active, playerId: 0 })
SetReceiver(entity, active) ==
  addComponent(entity, "InputReceiver", [active |-> active, playerId |-> 0])

(* ----------------------------- specifications --------------------------- *)
Init ==
  /\ nextId = 0
  /\ entities = <<>>
  /\ componentStorages = <<>>
  /\ resources = <<>>
  /\ systems = <<>>
  /\ eventHandlers = <<>>
  /\ handlerSets = <<>>
  /\ closures = {}
  /\ frame = IdleFrame
  /\ trace = <<>>
  /\ lastCall = Call("none", FALSE)
  /\ returned = <<>>
  /\ addOrder = <<>>
  /\ retired = {}
  /\ live = <<>>
  /\ game = NoGame

EntityIds == 0..MaxEntities

\* the entity manager alone
EMNext ==
  \/ create(MaxIds)
  \/ \E e \in 0..MaxIds : destroyEntity(e)
  \/ clear
  \/ destroy
SpecEM == Init /\ [][EMNext]_vars

\* entities and component storages
StoreNext ==
  \/ create(MaxEntities)
  \/ \E e \in EntityIds : destroyEntity(e)
  \/ clear
  \/ \E t \in ComponentTypes : registerComponent(t)
  \/ \E e \in EntityIds, t \in ComponentTypes, d \in ComponentData : addComponent(e, t, d)
  \/ \E e \in EntityIds, t \in ComponentTypes : getComponent(e, t)
  \/ \E e \in EntityIds, t \in ComponentTypes : removeComponent(e, t)
  \/ \E e \in EntityIds : removeAllComponents(e)
  \/ destroy
SpecStore == Init /\ [][StoreNext]_vars

\* the two query operations over entities created, destroyed and given components
QueryIds == 0..(MaxQueryEntities - 1)
QueryData == {1}
QueryNext ==
  \/ create(MaxQueryEntities)
  \/ \E e \in QueryIds : destroyEntity(e)
  \/ \E t \in ComponentTypes : registerComponent(t)
  \/ \E e \in QueryIds, t \in ComponentTypes, d \in QueryData : addComponent(e, t, d)
  \/ \E e \in QueryIds, t \in ComponentTypes : getComponent(e, t)
  \/ \E e \in QueryIds, t \in ComponentTypes : removeComponent(e, t)
  \/ \E e \in QueryIds : removeAllComponents(e)
SpecQuery == Init /\ [][QueryNext]_vars

\* the life of a World: it is filled, updated and destroyed, again and again
LifeEvents == {"gameOver"}
LifeHandlers == {"h1"}
LifeCleanups == {b \in CleanupBehaviours : b.data \in {0, 1}}
LifeNext ==
  \/ create(MaxEntities)
  \/ \E e \in EntityIds, t \in ComponentTypes, d \in QueryData : addComponent(e, t, d)
  \/ setResource("score", 1)
  \/ \E o \in FrameSystems : addSystem(o)
  \/ \E e \in LifeEvents, h \in LifeHandlers : on(e, h)
  \/ updateBegin(16)
  \/ updateStep(Does("nothing"))
  \/ updateEnd
  \/ \E b \in LifeCleanups : destroyWith(b)
SpecLife == Init /\ [][LifeNext]_vars

\* the resource table, in a World that also holds an entity, a system and a handler
ResSystems == {o \in FrameSystems : o.name = "Movement"}
ResNext ==
  \/ create(MaxEntities)
  \/ \E e \in EntityIds, d \in QueryData : addComponent(e, "Transform", d)
  \/ \E k \in ResourceNames, v \in ResourceValues : setResource(k, v)
  \/ \E o \in ResSystems : addSystem(o)
  \/ \E e \in LifeEvents, h \in LifeHandlers : on(e, h)
  \/ destroy
SpecRes == Init /\ [][ResNext]_vars

\* records written, overwritten and removed for several entities and types
RecordData(type) == IF type = "Transform" THEN ComponentData ELSE QueryData
RecordsNext ==
  \/ create(MaxQueryEntities)
  \/ \E e \in QueryIds, t \in ComponentTypes :
       \E d \in RecordData(t) : addComponent(e, t, d)
  \/ \E e \in QueryIds, t \in ComponentTypes : removeComponent(e, t)
  \/ \E e \in QueryIds : removeAllComponents(e)
SpecRecords == Init /\ [][RecordsNext]_vars

\* an event whose handlers subscribe and unsubscribe while it is dispatched
LiveNext ==
  \/ \E e \in LifeEvents, h \in LiveHandlers : on(e, h)
  \/ \E c \in closures : unsubscribe(c)
  \/ \E e \in LifeEvents, acts \in [LiveHandlers -> HandlerActs] : emitWith(e, 1, acts)
SpecLive == Init /\ [][LiveNext]_vars

\* the scheduler: systems added, removed and replaced, also from inside update
SchedNext ==
  \/ \E o \in FrameSystems : addSystem(o)
  \/ \E n \in SysNames : removeSystem(n)
  \/ \E dt \in DeltaTimes : updateBegin(dt)
  \/ \E b \in SchedBehaviours : updateStep(b)
  \/ updateEnd
  \/ destroy
SpecSched == Init /\ [][SchedNext]_vars

\* systems added, replaced and removed, from outside a frame and from a
\* system's update
ListNext ==
  \/ \E o \in FrameSystems : addSystem(o)
  \/ \E n \in SysNames : removeSystem(n)
  \/ updateBegin(16)
  \/ \E b \in SchedBehaviours : updateStep(b)
  \/ updateEnd
SpecList == Init /\ [][ListNext]_vars

\* systems whose init hooks subscribe to an event and whose cleanup hooks may
\* unsubscribe, added, replaced and removed between emits
HookSystems == {o \in SystemObjs : o.name = "Input" /\ (o.priority = PRE_PHYSICS \/ o.id = 1)}
HookNext ==
  \/ \E o \in HookSystems, ib \in InitHooks, cb \in CleanupHooks : addSystemWith(o, ib, cb)
  \/ \E o \in HookSystems, cb \in CleanupHooks : removeSystemWith(o.name, cb)
  \/ emit(RestartEvent, 1)
SpecHooks == Init /\ [][HookNext]_vars

\* a game instance after createSnakeGame / createFlappyGame has returned: the
\* restart system is listed and the game's restart handler is registered
GameInit ==
  /\ nextId = 0
  /\ entities = <<>>
  /\ componentStorages = <<>>
  /\ resources = <<>>
  /\ systems = <<RestartSystem>>
  /\ eventHandlers = (RestartEvent :> 1)
  /\ handlerSets = <<(<<ResetHandler>>)>>
  /\ closures = {Closure(1, ResetHandler, RestartEvent)}
  /\ frame = IdleFrame
  /\ trace = <<>>
  /\ lastCall = Call("none", FALSE)
  /\ returned = <<>>
  /\ addOrder = <<RestartSystem>>
  /\ retired = {}
  /\ live = <<Closure(1, ResetHandler, RestartEvent)>>
  /\ game \in {NewGame(k) : k \in GameKinds}
GameNext ==
  \/ GameStart
  \/ GameStop
  \/ GameReset
  \/ GameDestroy
  \/ FrameBegin
  \/ \E n \in 0..MaxRestarts : FrameCallback(n)
  \/ FrameEnd
SpecGame == GameInit /\ [][GameNext]_vars

\* the Snake World after start(): initEntities() has run
SnakeInit ==
  LET w == initEntities([systems |-> <<>>, componentStorages |-> <<>>, entities |-> <<>>,
                         nextId |-> 0, eventHandlers |-> <<>>, resources |-> <<>>,
                         log |-> <<>>])
  IN /\ nextId = w.nextId
     /\ entities = w.entities
     /\ componentStorages = w.componentStorages
     /\ resources = w.resources
     /\ systems = <<>>
     /\ eventHandlers = <<>>
     /\ handlerSets = <<>>
     /\ closures = {}
     /\ frame = IdleFrame
     /\ trace = <<>>
     /\ lastCall = Call("none", FALSE)
     /\ returned = <<>>
     /\ addOrder = <<>>
     /\ retired = {}
     /\ live = <<>>
     /\ game = NoGame
SnakeNext ==
  \/ \E inputState \in InputStates, due \in BOOLEAN : SnakeFrame(inputState, due)
  \/ \E e \in Range(entities), active \in BOOLEAN : SetReceiver(e, active)
SpecSnake == SnakeInit /\ [][SnakeNext]_vars

\* the event bus alone
BusNext ==
  \/ \E e \in Events, h \in Handlers : on(e, h)
  \/ \E c \in closures : unsubscribe(c)
  \/ \E e \in Events, d \in Payloads : emit(e, d)
  \/ destroy
SpecBus == Init /\ [][BusNext]_vars

\* frames whose systems emit events
Next ==
  \/ \E o \in FrameSystems : addSystem(o)
  \/ \E e \in Events, h \in Handlers : on(e, h)
  \/ \E c \in closures : unsubscribe(c)
  \/ \E dt \in DeltaTimes : updateBegin(dt)
  \/ \E b \in EmitBehaviours : updateStep(b)
  \/ updateEnd
Spec == Init /\ [][Next]_vars

(* -------------------------------- claims -------------------------------- *)
\* the systems whose update the trace shows, in the order of the calls
UpdateCalls == SelectSeq(trace, LAMBDA t : t.k = "update")

\* the position of x in the list s
PosIn(s, x) == CHOOSE i \in DOMAIN s : s[i] = x

\* a World.update(dt) call has returned and nothing was called since
FrameDone == lastCall.op = "update" /\ ~frame.active

\* C1: with no clear() and no World.destroy() in between, the k-th create()
\* returns the id k-1: the ids returned are pairwise distinct, each is one more
\* than the one before, and none is returned twice, destroyed or not.
C1_SequentialIds ==
  /\ \A k \in DOMAIN returned : returned[k] = k - 1
  /\ \A j, k \in DOMAIN returned : j # k => returned[j] # returned[k]
  /\ \A k \in DOMAIN returned : k > 1 => returned[k] = returned[k - 1] + 1

\* three ids were returned, the first was destroyed, and create() was called after
C1_Witness ==
  /\ Len(returned) >= 3
  /\ 0 \notin Range(entities)
  /\ lastCall.op = "create"

\* C2: the system list is sorted by non-decreasing priority after any addSystem
\* and removeSystem, and every update(dt) invokes the updates in non-decreasing
\* priority, whatever the order in which the systems were added.
C2_PriorityOrder ==
  /\ \A i, j \in DOMAIN systems : i < j => systems[i].priority <= systems[j].priority
  /\ \A p, q \in DOMAIN UpdateCalls :
       p < q => UpdateCalls[p].sys.priority <= UpdateCalls[q].sys.priority

\* a frame ran a lower-priority system before a higher-priority one that was added first
C2_Witness ==
  /\ FrameDone
  /\ Len(UpdateCalls) >= 2
  /\ UpdateCalls[1].sys.priority < UpdateCalls[2].sys.priority
  /\ PosIn(addOrder, UpdateCalls[2].sys) < PosIn(addOrder, UpdateCalls[1].sys)

\* C3: two listed systems of equal priority stand in the list in the order of
\* their most recent addSystem calls, and a frame that changes no list invokes
\* them in that order.
C3_StableTies ==
  /\ \A i, j \in DOMAIN systems :
       (i < j /\ systems[i].priority = systems[j].priority)
         => PosIn(addOrder, systems[i]) < PosIn(addOrder, systems[j])
  /\ (FrameDone /\ frame.mutations = 0) =>
       \A p, q \in DOMAIN UpdateCalls :
         (p < q /\ UpdateCalls[p].sys.priority = UpdateCalls[q].sys.priority)
           => PosIn(addOrder, UpdateCalls[p].sys) < PosIn(addOrder, UpdateCalls[q].sys)

\* a frame ran three systems, the first two of equal priority, the first of which
\* was re-added after the third was added
C3_Witness ==
  /\ FrameDone
  /\ frame.mutations = 0
  /\ Len(UpdateCalls) = 3
  /\ UpdateCalls[1].sys.priority = UpdateCalls[2].sys.priority
  /\ PosIn(addOrder, UpdateCalls[3].sys) < PosIn(addOrder, UpdateCalls[1].sys)

\* C5: no two systems in the list have the same name.
C5_UniqueNames ==
  \A i, j \in DOMAIN systems : i # j => systems[i].name # systems[j].name

\* addSystem has just replaced a system of the same name in a list of three
C5_Witness ==
  /\ lastCall = Call("addSystem", TRUE)
  /\ Len(systems) = 3

\* C6: an update(dt) during which no system adds or removes systems invokes the
\* update of every listed system exactly once, in list order, with the same dt,
\* each update returning before the next one starts.
C6_OneCallEach ==
  (FrameDone /\ frame.mutations = 0) =>
    /\ Len(UpdateCalls) = Len(systems)
    /\ \A i \in DOMAIN systems :
         UpdateCalls[i].sys = systems[i] /\ UpdateCalls[i].dt = frame.dt
    /\ \A p \in DOMAIN trace :
         trace[p].k = "update" =>
           \E q \in DOMAIN trace :
             /\ q > p
             /\ trace[q] = ReturnEntry(trace[p].sys)
             /\ \A m \in (p + 1)..(q - 1) : trace[m].k \notin {"update", "return"}

\* a frame over three systems has returned without changing the list
C6_Witness ==
  /\ FrameDone
  /\ frame.mutations = 0
  /\ Len(systems) = 3
  /\ Len(UpdateCalls) = 3

\* the callbacks the step has run
NewEntries == IF frame.active THEN SubSeq(trace', Len(trace) + 1, Len(trace')) ELSE trace'

\* the step holds an addSystem(o) that finds another object under o's name
Replaces(o, old) ==
  /\ \E p \in DOMAIN NewEntries : NewEntries[p].k = "init" /\ NewEntries[p].sys = o
  /\ old \in getSystem(systems, o.name)
  /\ old # o

\* C4: when addSystem is called with a system whose name is in use by another
\* object, the cleanup of that object is invoked exactly once and the object
\* leaves the list; its update is not invoked again, in this frame or a later
\* one, until it is added again.
C4_ReplaceRetires ==
  /\ [][\A o, old \in SystemObjs :
          Replaces(o, old) =>
            /\ Cardinality({p \in DOMAIN NewEntries :
                              NewEntries[p].k = "cleanup" /\ NewEntries[p].sys = old}) = 1
            /\ old \notin Range(systems')]_vars
  /\ [](\A p \in DOMAIN trace : trace[p].k = "update" => ~trace[p].retired)

\* a frame has run the system that took the name of a replaced one
C4_Witness ==
  /\ FrameDone
  /\ \E old \in retired : \E p \in DOMAIN UpdateCalls :
       UpdateCalls[p].sys.name = old.name /\ UpdateCalls[p].sys # old

\* C7: when a system emits an event during its update, every handler subscribed
\* to the event at that moment is invoked, and returns, before the update of the
\* system returns and so before the update of the next system starts.
C7_SynchronousDelivery ==
  \A p \in DOMAIN trace :
    trace[p].k = "emit" =>
      \A i \in DOMAIN trace[p].subs :
        \E q \in DOMAIN trace :
          /\ q > p
          /\ trace[q] = HandlerEntry(trace[p].subs[i], trace[p].event, trace[p].data)
          /\ \A m \in p..q : trace[m].k \notin {"update", "return"}

\* a system emitted an event with two subscribers and another system ran after it
C7_Witness ==
  /\ FrameDone
  /\ \E p, q \in DOMAIN trace :
       /\ p < q
       /\ trace[p].k = "emit"
       /\ Len(trace[p].subs) = 2
       /\ trace[q].k = "update"

\* a world.emit called from outside has returned and nothing was called since
EmitDone == lastCall.op = "emit"

\* the handler calls the trace shows, in order
HandlerCalls == SelectSeq(trace, LAMBDA t : t.k = "handler")

\* the Set the closure c captured is still the one registered for its event
Current(c) == c.event \in DOMAIN eventHandlers /\ eventHandlers[c.event] = c.set

\* on(event, handler) was called and no unsubscribe function it returned was called since
Subscribed(event, handler) ==
  \E c \in Range(live) : c.event = event /\ c.handler = handler

\* the same, with no World.destroy() since the on() call
Registered(event, handler) ==
  \E c \in Range(live) : c.event = event /\ c.handler = handler /\ Current(c)

\* the handlers registered for event, in the order of their on() calls
RegOrder(event) ==
  LET cs == SelectSeq(live, LAMBDA c : c.event = event /\ Current(c))
  IN [i \in DOMAIN cs |-> cs[i].handler]

\* the number of calls of handler with the payload of the emit the trace shows
CallsOf(handler) ==
  Cardinality({p \in DOMAIN trace :
                 trace[p] = HandlerEntry(handler, trace[1].event, trace[1].data)})

C9_RegistrationOrder ==
  /\ [](EmitDone =>
          /\ Len(HandlerCalls) = Len(RegOrder(trace[1].event))
          /\ \A i \in DOMAIN HandlerCalls :
               HandlerCalls[i] = HandlerEntry(RegOrder(trace[1].event)[i],
                                              trace[1].event, trace[1].data))
  /\ [][(lastCall'.op = "emit" /\ Len(RegOrder(trace'[1].event)) = 0) =>
          /\ UNCHANGED <<emVars, storeVars, systems, busVars>>
          /\ Len(trace') = 1]_vars

\* an emit ran h2 before h1 while h1 alone is registered for the other event
C9_Witness ==
  /\ EmitDone
  /\ Len(HandlerCalls) = 2
  /\ HandlerCalls[1].h = "h2"
  /\ \E e \in Events : e # trace[1].event /\ RegOrder(e) = <<"h1">>

\* the lists of types a query is made with
QueryLists ==
  {<<>>} \cup {<<t>> : t \in ComponentTypes} \cup {<<t, u>> : t, u \in ComponentTypes}

\* C10: addComponent on an entity that is not alive leaves the World unchanged:
\* no record is written, no storage is created, and query and hasComponent
\* return what they returned before.
C10_DeadEntityNoOp ==
  [][lastCall' = Call("addComponent", FALSE) =>
       /\ UNCHANGED <<nextId, entities, componentStorages, resources, systems,
                      eventHandlers, handlerSets>>
       /\ \A ts \in QueryLists : query(ts)' = query(ts)
       /\ \A e \in EntityIds, t \in ComponentTypes :
            hasComponent(e, t)' = hasComponent(e, t)]_vars

\* addComponent was called on an entity that is not alive, while id 0 is
\* destroyed and one storage exists and the other does not
C10_Witness ==
  /\ lastCall = Call("addComponent", FALSE)
  /\ nextId > 0
  /\ ~exists(0)
  /\ Cardinality(DOMAIN componentStorages) = 1

\* C11: entities.destroy(e) takes e out of the alive set and changes no component
\* storage: after the call exists(e) is false, and getComponent(e, T) and
\* hasComponent(e, T) give, for every type T and for every entity, what they
\* gave before the call (the record last written and not removed since).
C11_DestroyKeepsRecords ==
  [][\A e \in EntityIds :
       destroyEntity(e) =>
         /\ ~exists(e)'
         /\ Range(entities') = Range(entities) \ {e}
         /\ componentStorages' = componentStorages
         /\ \A x \in EntityIds, t \in ComponentTypes :
              /\ getComponentResult(x, t)' = getComponentResult(x, t)
              /\ hasComponent(x, t)' = hasComponent(x, t)]_vars

\* entity 0 was destroyed while it held a record, which is still there
C11_Witness ==
  /\ lastCall = Call("entities.destroy", TRUE)
  /\ ~exists(0)
  /\ hasComponent(0, "Transform")
  /\ getComponentResult(0, "Transform") = {2}

\* the entities that have a record in the storage of every type of the list
HavingAll(ts) ==
  {e \in QueryIds : \A i \in DOMAIN ts :
     /\ ts[i] \in DOMAIN componentStorages
     /\ \E k \in DOMAIN componentStorages[ts[i]] : componentStorages[ts[i]][k].entity = e}

NoDuplicates(s) == \A i, j \in DOMAIN s : s[i] = s[j] => i = j

\* C12: for a non-empty list of types, world.query returns exactly the entities
\* that have a record in the storage of every listed type, each once; the set
\* is the same whatever the order in which the components were added and
\* whatever the order in which the types are listed.
C12_QueryIsIntersection ==
  \A ts \in QueryLists :
    Len(ts) > 0 =>
      /\ Range(query(ts)) = HavingAll(ts)
      /\ NoDuplicates(query(ts))
      /\ \A us \in QueryLists : Range(us) = Range(ts) => Range(query(us)) = Range(query(ts))

\* two entities hold both types, added in opposite orders, so that the two
\* listings of the types give the same entities in different orders
C12_Witness ==
  /\ query(<<"Transform", "Velocity">>) = <<1, 0>>
  /\ query(<<"Velocity", "Transform">>) = <<0, 1>>

\* C13: in every reachable state and for every list of types, the fluent query
\* with(types).execute(world), with no without clause, returns the same set of
\* entities as the direct query world.query(types).
C13_FluentEqualsDirect ==
  \A ts \in QueryLists : Range(execute(ts, <<>>)) = Range(query(ts))

\* C14: every entity returned by world.query(...types) and by
\* QueryBuilder.execute(world) is alive at the time of the call.
C14_QueryReturnsAlive ==
  /\ \A ts \in QueryLists : \A e \in Range(query(ts)) : exists(e)
  /\ \A ws \in QueryLists, xs \in QueryLists : \A e \in Range(execute(ws, xs)) : exists(e)

\* the type has a storage holding a record of the entity
HasRecord(e, type) ==
  /\ type \in DOMAIN componentStorages
  /\ \E k \in DOMAIN componentStorages[type] : componentStorages[type][k].entity = e

\* C15: with(W).without(X).execute(world) returns exactly the alive entities
\* that have every type of W and no type of X, in creation order; with W empty
\* the without list is still applied, and with both empty the result is all
\* alive entities, the result of world.query() with no argument.
C15_FluentQuery ==
  /\ \A ws \in QueryLists, xs \in QueryLists :
       LET r == execute(ws, xs)
       IN /\ Range(r) = {e \in Range(entities) :
                           /\ \A i \in DOMAIN ws : HasRecord(e, ws[i])
                           /\ \A j \in DOMAIN xs : ~HasRecord(e, xs[j])}
          /\ \A i, j \in DOMAIN r : i < j => r[i] < r[j]
  /\ execute(<<>>, <<>>) = entities
  /\ execute(<<>>, <<>>) = query(<<>>)

\* both entities are alive and hold a Transform, written for entity 1 first;
\* entity 1 alone holds a Velocity
C15_Witness ==
  /\ entities = <<0, 1>>
  /\ storageEntities(getStorage("Transform")["Transform"]) = <<1, 0>>
  /\ execute(<<"Transform">>, <<>>) = <<0, 1>>
  /\ execute(<<>>, <<"Velocity">>) = <<0>>
  /\ execute(<<"Transform">>, <<"Velocity">>) = <<0>>

\* C20: after removeAllComponents(e), alive or not, hasComponent(e, T) is false
\* and getComponent(e, T) is absent for every type T; the records of every
\* other entity, the set of storages and the alive set are unchanged.
C20_RemoveAllComponents ==
  [][\A e \in QueryIds :
       removeAllComponents(e) =>
         /\ \A t \in ComponentTypes :
              ~hasComponent(e, t)' /\ getComponentResult(e, t)' = {}
         /\ DOMAIN componentStorages' = DOMAIN componentStorages
         /\ entities' = entities /\ nextId' = nextId
         /\ \A x \in QueryIds \ {e}, t \in ComponentTypes :
              /\ hasComponent(x, t)' = hasComponent(x, t)
              /\ getComponentResult(x, t)' = getComponentResult(x, t)
         /\ \A t \in DOMAIN componentStorages :
              storageEntities(componentStorages[t])' =
                Without(storageEntities(componentStorages[t]), e)]_vars

\* the records of the destroyed entity 0 were removed; those of the alive
\* entity 1 are still there
C20_Witness ==
  /\ lastCall = Call("removeAllComponents", TRUE)
  /\ ~exists(0) /\ exists(1)
  /\ hasComponent(1, "Transform") /\ hasComponent(1, "Velocity")
  /\ ~hasComponent(0, "Transform") /\ ~hasComponent(0, "Velocity")

\* C18: a storage exists for a type exactly when, since the World was created
\* or last destroyed, registerComponent was called for the type or addComponent
\* wrote a record of the type for an alive entity: every step leaves the set of
\* storages as it was, except that registerComponent and a writing addComponent
\* add their type and World.destroy empties it; getComponent, hasComponent,
\* query and removeComponent create no storage.
C18_StorageIffWritten ==
  [][IF destroy
     THEN DOMAIN componentStorages' = {}
     ELSE \A t \in ComponentTypes :
            t \in DOMAIN componentStorages' <=>
              \/ t \in DOMAIN componentStorages
              \/ registerComponent(t)
              \/ \E e \in EntityIds, d \in ComponentData :
                   exists(e) /\ addComponent(e, t, d)]_vars

\* C19: getResource(k) returns the value of the latest setResource(k, v) made
\* since the World was created or last destroyed, and absent when there was
\* none: a new World has no resource, setResource(k, v) makes k read v and
\* changes no other key and no entity, component, system or handler,
\* World.destroy makes every key absent, and no other operation changes what
\* getResource returns.
C19_LastWriteWins ==
  /\ \A k \in ResourceNames : getResource(k) = {}
  /\ [][/\ \A k \in ResourceNames, v \in ResourceValues :
            setResource(k, v) =>
              /\ getResource(k)' = {v}
              /\ \A other \in ResourceNames \ {k} : getResource(other)' = getResource(other)
              /\ UNCHANGED <<nextId, entities, componentStorages, systems,
                             eventHandlers, handlerSets>>
        /\ lastCall'.op = "destroy" => \A k \in ResourceNames : getResource(k)' = {}
        /\ lastCall'.op \notin {"setResource", "destroy"} =>
             \A k \in ResourceNames : getResource(k)' = getResource(k)]_vars

\* score was written twice and gameOver once in between, in a World that holds
\* an entity with a record, a system and a handler
C19_Witness ==
  /\ lastCall = Call("setResource", TRUE)
  /\ getResource("score") = {2}
  /\ getResource("gameOver") = {1}
  /\ hasComponent(0, "Transform") /\ exists(0)
  /\ systems # <<>>
  /\ handlersOf("gameOver") # <<>>

\* nothing is left in the World: no alive entity, no system, no query result,
\* no resource
Gone ==
  /\ Len(entities) = 0
  /\ \A n \in SysNames : getSystem(systems, n) = {}
  /\ \A ts \in QueryLists : Len(query(ts)) = 0
  /\ \A k \in ResourceNames : getResource(k) = {}

\* the operations that add something to the World
AddOps == {"create", "registerComponent", "addComponent", "addSystem", "setResource", "on"}

\* C16: World.destroy() leaves nothing in the World, and as long as nothing is
\* added again it stays so: entities.getAll() is empty, query(T) is empty for
\* every T, getResource(k) is absent for every k, and update(dt) calls no
\* system's update and returns.
C16_DestroyedIsQuiet ==
  [][/\ lastCall'.op = "destroy" => Gone'
     /\ Gone /\ lastCall'.op \notin AddOps =>
          /\ Gone'
          /\ Len(SelectSeq(trace', LAMBDA x : x.k = "update")) = 0
          /\ frame'.active => frame'.idx > Len(systems')]_vars

\* a World that held a handler was destroyed, and update(16) then ran to its end
C16_Witness ==
  /\ lastCall = Call("update", FALSE)
  /\ ~frame.active /\ frame.dt = 16
  /\ Gone
  /\ closures # {}
  /\ DOMAIN eventHandlers = {}

\* the cleanup calls of a call history
CleanupCalls(log) == SelectSeq(log, LAMBDA x : x.k = "cleanup")

\* C17: World.destroy() calls cleanup once on every system of the list, in list
\* order, before anything is cleared: each hook sees the alive entities, the
\* component records and the resources as they were before the call, and an
\* event it emits is delivered to the handlers registered before the call.
C17_CleanupBeforeClear ==
  [][lastCall'.op = "destroy" =>
       /\ Len(CleanupCalls(trace')) = Len(systems)
       /\ \A i \in DOMAIN systems :
            /\ CleanupCalls(trace')[i].sys = systems[i]
            /\ CleanupCalls(trace')[i].seen = View(entities, componentStorages, resources)
       /\ \A p \in DOMAIN trace' :
            trace'[p].k = "emit" =>
              /\ trace'[p].subs = handlersOf(trace'[p].event)
              /\ \A i \in DOMAIN trace'[p].subs :
                   /\ p + i \in DOMAIN trace'
                   /\ trace'[p + i] =
                        HandlerEntry(trace'[p].subs[i], trace'[p].event, trace'[p].data)
       /\ systems' = <<>> /\ Len(entities') = 0
       /\ DOMAIN componentStorages' = {} /\ DOMAIN eventHandlers' = {}
       /\ DOMAIN resources' = {}]_vars

\* two systems were cleaned up by destroy; their hooks saw the entity, its
\* record and the resource, and the event they emitted reached the handler
C17_Witness ==
  /\ lastCall.op = "destroy"
  /\ Len(CleanupCalls(trace)) = 2
  /\ CleanupCalls(trace)[1].seen.alive = <<0>>
  /\ CleanupCalls(trace)[2].seen.records # {}
  /\ CleanupCalls(trace)[2].seen.resources = {<<"score", 1>>}
  /\ Len(SelectSeq(trace, LAMBDA x : x.k = "handler")) = 2

\* C21: for an alive entity e, getComponent(e, T) returns the record of the
\* latest addComponent(e, T, data) made since the last removeComponent(e, T) or
\* removeAllComponents(e), whole, and absent when there is none: a new World
\* has no record, addComponent on an alive e makes (e, T) read data and changes
\* no other entity's and no other type's record, the two removals make the
\* record absent, and no other operation changes what getComponent returns.
C21_WholeRecordReplace ==
  /\ \A x \in QueryIds, u \in ComponentTypes : getComponentResult(x, u) = {}
  /\ [][/\ \A e \in QueryIds, t \in ComponentTypes :
            \A d \in RecordData(t) :
              exists(e) /\ addComponent(e, t, d) =>
                /\ getComponentResult(e, t)' = {d}
                /\ \A x \in QueryIds, u \in ComponentTypes :
                     <<x, u>> # <<e, t>> =>
                       getComponentResult(x, u)' = getComponentResult(x, u)
        /\ \A e \in QueryIds, t \in ComponentTypes :
            removeComponent(e, t) => getComponentResult(e, t)' = {}
        /\ \A e \in QueryIds :
            removeAllComponents(e) =>
              \A t \in ComponentTypes : getComponentResult(e, t)' = {}
        /\ lastCall'.op \notin {"addComponent", "removeComponent", "removeAllComponents"} =>
            \A x \in QueryIds, u \in ComponentTypes :
              getComponentResult(x, u)' = getComponentResult(x, u)]_vars

\* the Transform of the alive entity 0 reads the value written last, while
\* entity 1 holds a Transform of another value and entity 0 a Velocity
C21_Witness ==
  /\ lastCall = Call("addComponent", TRUE)
  /\ exists(0) /\ exists(1)
  /\ getComponentResult(0, "Transform") = {2}
  /\ getComponentResult(1, "Transform") = {1}
  /\ getComponentResult(0, "Velocity") = {1}
  /\ getComponentResult(1, "Velocity") = {}

\* C22: registerComponent(type) makes sure the type has a storage, and when
\* the type already has one (from an earlier registerComponent or from a
\* write) it changes no record of it and nothing else of the World.
C22_RegisterIdempotent ==
  [][\A t \in ComponentTypes :
       registerComponent(t) =>
         /\ t \in DOMAIN componentStorages'
         /\ t \in DOMAIN componentStorages =>
              UNCHANGED <<nextId, entities, componentStorages, resources, systems,
                          eventHandlers, handlerSets>>]_vars

\* registerComponent was called for a type whose storage holds a record
C22_Witness ==
  /\ lastCall = Call("registerComponent", TRUE)
  /\ \E t \in ComponentTypes : \E e \in EntityIds : getComponentResult(e, t) = {2}
  /\ Cardinality(DOMAIN componentStorages) = 1

\* the effect a removeSystem(n) made in this step must have
Removed(n) ==
  LET cleanups == SelectSeq(NewEntries, LAMBDA x : x.k = "cleanup")
  IN IF getSystem(systems, n) # {}
     THEN LET s == CHOOSE x \in getSystem(systems, n) : TRUE
          IN /\ cleanups = <<HookEntry("cleanup", s, TRUE)>>
             /\ systems' = Without(systems, s)
             /\ getSystem(systems', n) = {}
     ELSE /\ Len(NewEntries) = IF frame.active THEN 2 ELSE 0
          /\ systems' = systems

\* C23: removeSystem(name), called from outside a frame or from a system's
\* update, on a listed name calls that system's cleanup once while
\* getSystem(name) still returns it, then takes it out of the list, the other
\* systems keeping their order; on a name that is not listed it calls nothing
\* and leaves the list as it is.
C23_RemoveSystem ==
  [][/\ \A n \in SysNames : removeSystem(n) => Removed(n)
     /\ \A b \in SchedBehaviours :
          b.k = "removeSystem" /\ updateStep(b) => Removed(b.name)]_vars

\* the middle one of three systems was removed: its cleanup ran while it was
\* listed, and the two others are left in their order
C23_Witness ==
  /\ lastCall = Call("removeSystem", TRUE)
  /\ Len(trace) = 1 /\ trace[1].k = "cleanup" /\ trace[1].listed
  /\ Len(systems) = 2
  /\ systems[1].priority = PRE_PHYSICS /\ systems[2].priority = PHYSICS
  /\ trace[1].sys.priority = PHYSICS
  /\ trace[1].sys \notin Range(systems)

\* C24: entities.getAll() returns exactly the alive ids, in the order in which
\* they were created, after any sequence of create and destroy calls: create
\* puts the new id last, destroy takes its id out and moves no other; the
\* result is a function of the state, so two calls with no mutation in
\* between return the same sequence.
C24_GetAllCreationOrder ==
  /\ [](/\ getAll = SelectSeq(returned, LAMBDA i : exists(i))
        /\ \A i, j \in DOMAIN getAll : i < j => getAll[i] < getAll[j])
  /\ [][/\ create(MaxIds) => getAll' = Append(getAll, nextId)
        /\ \A e \in 0..MaxIds : destroyEntity(e) => getAll' = Without(getAll, e)]_vars

\* three ids are alive after an older one and one between them were destroyed
C24_Witness ==
  /\ getAll = <<1, 3, 4>>
  /\ returned = <<0, 1, 2, 3, 4>>

\* C25: entities.destroy(id) on an id that is not alive changes nothing, so
\* count() is the number of create() calls minus the number of destroy calls
\* that hit an alive id since the last clear, and exists(id) is true for
\* exactly the created ids no destroy has hit: create adds one, a destroy that
\* hits takes one away, a destroy that misses changes nothing, clear resets.
C25_DestroyIdempotent ==
  /\ count = 0
  /\ [](/\ count = Cardinality({i \in Range(returned) : exists(i)})
        /\ \A i \in 0..MaxIds : exists(i) => i \in Range(returned))
  /\ [][/\ create(MaxIds) => count' = count + 1 /\ nextId \in Range(getAll')
        /\ \A e \in 0..MaxIds :
             destroyEntity(e) =>
               IF exists(e)
               THEN /\ count' = count - 1
                    /\ \A i \in 0..MaxIds : exists(i)' <=> (exists(i) /\ i # e)
               ELSE UNCHANGED <<nextId, entities, componentStorages, resources,
                                systems, eventHandlers, handlerSets>>
        /\ clear => count' = 0]_vars

\* a destroy missed (the id was destroyed before, or not created yet) while
\* some created ids are alive and others are not
C25_Witness ==
  /\ lastCall = Call("entities.destroy", FALSE)
  /\ nextId = 3
  /\ count = 2
  /\ ~exists(0)

\* the systems that were in the list during the whole of the frame: listed at
\* its end, and neither added nor removed by a call made during it
ListedThroughout ==
  {s \in Range(systems) :
     \A p \in DOMAIN trace : trace[p].k \in {"init", "cleanup"} => trace[p].sys # s}

\* C26: in one update(dt) call, also when a system's update calls addSystem or
\* removeSystem, no system's update is invoked more than once, and every
\* system that is in the list from the start to the end of the call has its
\* update invoked.
C26_NoSkipNoDouble ==
  FrameDone =>
    /\ \A i, j \in DOMAIN UpdateCalls : UpdateCalls[i].sys = UpdateCalls[j].sys => i = j
    /\ \A s \in ListedThroughout : \E i \in DOMAIN UpdateCalls : UpdateCalls[i].sys = s

\* the effect an addSystem(o) made in this step must have
Added(o) ==
  LET hooks == SelectSeq(NewEntries, LAMBDA x : x.k \in {"init", "cleanup"})
      old == getSystem(systems, o.name)
  IN /\ hooks = (IF old = {} THEN <<>>
                 ELSE <<HookEntry("cleanup", CHOOSE x \in old : TRUE, TRUE)>>)
                  \o <<HookEntry("init", o, TRUE)>>
     /\ getSystem(systems', o.name) = {o}
     /\ \A x \in old : x # o => x \notin Range(systems')
     /\ \A i, j \in DOMAIN systems' : i < j => systems'[i].priority <= systems'[j].priority

\* C27: addSystem first calls the cleanup of the listed system of the same
\* name and removes it, then inserts the new system, then calls the new
\* system's init, once: init is the last callback of the call, and while it
\* runs getSystem(name) returns the new system and the list is in priority
\* order. Checked for calls from outside a frame and from a system's update.
C27_AddSystemOrder ==
  [][/\ lastCall'.op = "addSystem" =>
          \A o \in SystemObjs : addSystem(o) => Added(o)
     /\ frame.active /\ frame'.mutations = frame.mutations + 1 =>
          \A b \in SchedBehaviours : b.k = "addSystem" /\ updateStep(b) => Added(b.sys)]_vars

\* inside a frame a system took the name of another object and stands first of three
C27_Witness ==
  /\ lastCall.op = "update"
  /\ Len(systems) = 3
  /\ \E p \in DOMAIN trace :
       /\ trace[p].k = "cleanup" /\ trace[p].listed
       /\ p + 1 \in DOMAIN trace
       /\ trace[p + 1].k = "init" /\ trace[p + 1].listed
       /\ trace[p + 1].sys.name = trace[p].sys.name
       /\ trace[p + 1].sys # trace[p].sys
       /\ trace[p + 1].sys = systems[1]

\* C28: a newly created entity has no component: right after
\* id = entities.create(), hasComponent(id, T) is false for every type T, in
\* every state the World's public operations reach, entities.clear() included.
C28_NewEntityIsBare ==
  lastCall = Call("create", TRUE) =>
    \A t \in ComponentTypes : ~hasComponent(nextId - 1, t)

\* the position of handler h in the list s of handlers, 0 when it is not in it
Place(s, h) == FindIndex(s, {h})

\* the calls of world.on and of unsubscribe functions made by the handlers of
\* the emit the trace shows
LiveCalls == {p \in DOMAIN trace : trace[p].k \in {"on", "unsubscribe"}}
\* the handler that made the call at p of the trace
Caller(p) == trace[p - 1].h
\* the handler h was called before position p of the trace
CalledBefore(h, p) == \E q \in 1..(p - 1) : trace[q].k = "handler" /\ trace[q].h = h

\* C29: when handlers of event E call their own unsubscribe function while
\* emit(E) is dispatching (and that is all the handlers do), every handler
\* that was registered for E when the emit started is invoked exactly once in
\* that emit, in registration order; the handlers that unsubscribed are gone
\* afterwards and the others stay.
C29_SelfUnsubscribeInDispatch ==
  [][(/\ lastCall'.op = "emit"
      /\ LiveCalls' # {}
      /\ \A p \in LiveCalls' : trace'[p].k = "unsubscribe" /\ trace'[p].h = Caller(p)') =>
       \A e \in Events : trace'[1].event = e =>
          /\ Len(HandlerCalls') = Len(RegOrder(e))
          /\ \A i \in DOMAIN RegOrder(e) :
               HandlerCalls'[i] = HandlerEntry(RegOrder(e)[i], e, trace'[1].data)
          /\ handlersOf(e)' =
               SelectSeq(handlersOf(e),
                         LAMBDA h : \A p \in LiveCalls' : trace'[p].h # h)]_vars

\* three handlers were called; the one in the middle unsubscribed itself and is
\* no longer registered
C29_Witness ==
  /\ EmitDone
  /\ Len(trace[1].subs) = 3
  /\ Len(HandlerCalls) = 3
  /\ Cardinality(LiveCalls) = 1
  /\ \A p \in LiveCalls : trace[p].k = "unsubscribe" /\ trace[p].h = Caller(p)
  /\ handlersOf("gameOver") = <<trace[1].subs[1], trace[1].subs[3]>>

\* C30: a handler subscribed to E by a handler running during emit(E) is
\* invoked in that emit, once, after the handlers registered before it (when
\* no handler unsubscribes anything); a handler unsubscribed during emit(E)
\* before its turn is not invoked in that emit (when no handler subscribes
\* anything).
C30_LiveSetDispatch ==
  [][lastCall'.op = "emit" =>
       LET e == trace'[1].event
           before == RegOrder(e)
       IN /\ (\A p \in LiveCalls' : trace'[p].k = "on") =>
               /\ SubSeq(HandlerCalls', 1, Len(before)) = dispatch(before, e, trace'[1].data)
               /\ \A p \in LiveCalls' :
                    trace'[p].h \notin Range(before) =>
                      /\ Cardinality({q \in DOMAIN HandlerCalls' :
                                        HandlerCalls'[q].h = trace'[p].h}) = 1
                      /\ \A q \in DOMAIN HandlerCalls' :
                           HandlerCalls'[q].h = trace'[p].h => q > Len(before)
          /\ (\A p \in LiveCalls' : trace'[p].k = "unsubscribe") =>
               \A p \in LiveCalls' :
                 \A h \in LiveHandlers :
                   trace'[p].h = h /\ ~CalledBefore(h, p)' =>
                     \A q \in DOMAIN HandlerCalls' : HandlerCalls'[q].h # h]_vars

\* an emit that started with one handler called three: the two others were
\* subscribed while it was dispatching
C30_Witness ==
  /\ EmitDone
  /\ Len(trace[1].subs) = 1
  /\ Len(HandlerCalls) = 3
  /\ Cardinality(LiveCalls) = 2
  /\ \A p \in LiveCalls : trace[p].k = "on"
  /\ Len(handlersOf("gameOver")) = 3

\* C31 as stated: a handler registered twice for an event is registered once:
\* each emit invokes it once, and calling any unsubscribe function returned
\* for it stops its invocations for that event.
C31_Original ==
  /\ [](EmitDone => \A h \in Handlers : CallsOf(h) <= 1)
  /\ [][\A c \in closures :
          unsubscribe(c) => c.handler \notin Range(handlersOf(c.event)')]_vars

\* C31, amended: on(e, h) for a handler already registered for e leaves the
\* handler table as it is, so each emit invokes h once; calling either of the
\* unsubscribe functions returned, with no World.destroy() between the
\* registration and that call, leaves h unregistered for e.
C31_SingleRegistration ==
  /\ [](EmitDone => \A h \in Handlers : CallsOf(h) <= 1)
  /\ [][/\ \A e \in Events, h \in Handlers :
            on(e, h) /\ h \in Range(handlersOf(e)) =>
              handlerSets' = handlerSets /\ eventHandlers' = eventHandlers
        /\ \A c \in closures :
            unsubscribe(c) /\ Current(c) =>
              c.handler \notin Range(handlersOf(c.event)')]_vars

\* h1 has just been registered a second time for the only event that has
\* handlers, and it is in the Set once
C31_Witness ==
  /\ lastCall = Call("on", TRUE)
  /\ \E e \in Events :
       /\ handlersOf(e) = <<"h1">>
       /\ \A f \in Events \ {e} : handlersOf(f) = <<>>

\* the handlers of the restart event that the init hooks of system registered
OwnHandlers(system) ==
  {c.handler : c \in Owned(BusNow, system)} \cap Range(handlersOf(RestartEvent))

\* C32: removeSystem(name), and addSystem replacing a system of the same name,
\* leave the event handler table as it is when the cleanup hook unsubscribes
\* nothing: the handlers the removed system's init registered stay registered
\* (the init of the added system can only add one at the end) and every later
\* emit invokes them; a cleanup hook that unsubscribes takes out the handlers
\* of its own system and no other.
C32_HandlersOutliveSystem ==
  /\ [](EmitDone =>
          HandlerCalls = dispatch(handlersOf(trace[1].event), trace[1].event, trace[1].data))
  /\ [][/\ \A o \in HookSystems :
            removeSystemWith(o.name, "nothing") =>
              eventHandlers' = eventHandlers /\ handlerSets' = handlerSets
        /\ \A o \in HookSystems :
            /\ addSystemWith(o, "nothing", "nothing") =>
                 eventHandlers' = eventHandlers /\ handlerSets' = handlerSets
            /\ addSystemWith(o, "on", "nothing") =>
                 /\ Len(handlersOf(RestartEvent)') = Len(handlersOf(RestartEvent)) + 1
                 /\ SubSeq(handlersOf(RestartEvent)', 1, Len(handlersOf(RestartEvent)))
                      = handlersOf(RestartEvent)
        /\ \A o \in HookSystems :
            removeSystemWith(o.name, "unsubscribe") =>
              handlersOf(RestartEvent)' =
                SelectSeq(handlersOf(RestartEvent),
                          LAMBDA h : \A s \in getSystem(systems, o.name) :
                                       h \notin OwnHandlers(s))]_vars

\* no system is listed any more, and an emit has just invoked the two handlers
\* that the init hooks of removed systems registered
C32_Witness ==
  /\ EmitDone
  /\ systems = <<>>
  /\ Len(HandlerCalls) = 2
  /\ \A c \in closures : \E o \in HookSystems : c \in Owned(BusNow, o)

\* the gameLoop callbacks that are requested and have neither run nor been cancelled
PendingCallbacks == Len(game.pending) + Len(game.queue)

\* C33: in the Flappy game instance, whatever start(), stop(), reset(),
\* destroy(), animation frames and restart events emitted inside world.update
\* have happened, at most one gameLoop callback is pending and world.update
\* has been called at most once in the current animation frame.
C33_FlappySingleLoop ==
  game.kind = "flappy" => PendingCallbacks <= 1 /\ game.updates <= 1

\* a Flappy gameLoop has returned in whose world.update a restart was emitted:
\* the game runs and one callback is pending, the one start() requested
C33_Witness ==
  /\ game.kind = "flappy"
  /\ lastCall = Call("gameLoop", TRUE)
  /\ game.restarts = 1
  /\ game.isRunning
  /\ game.pending = <<game.animationFrame>>

\* C34: in the Snake game instance, whatever start(), stop(), reset(),
\* destroy(), animation frames and restart events emitted inside world.update
\* have happened, at most one gameLoop callback is pending and world.update
\* has been called at most once in the current animation frame.
C34_SnakeSingleLoop ==
  game.kind = "snake" => PendingCallbacks <= 1 /\ game.updates <= 1

\* C35: start() called while the game is running changes nothing: initEntities
\* does not run and no frame is requested; stop() and destroy() leave the game
\* not running, only start() and reset() called from outside make it run
\* again, and a gameLoop callback that finds the game not running does not
\* call world.update and requests no frame.
C35_StartStop ==
  [][/\ GameStart /\ game.isRunning =>
          /\ game' = Called(game)
          /\ ~game'.initRan
     /\ GameStop \/ GameDestroy => ~game'.isRunning
     /\ ~game.isRunning /\ game'.isRunning => lastCall'.op \in {"start", "reset"}
     /\ \A n \in 0..MaxRestarts :
          FrameCallback(n) /\ ~game.isRunning =>
            /\ game'.updates = game.updates
            /\ game'.pending = game.pending
            /\ ~game'.isRunning]_vars

\* a gameLoop callback has run after stop() and found the game not running
C35_Witness ==
  /\ lastCall = Call("gameLoop", FALSE)
  /\ game.inFrame
  /\ game.updates = 0
  /\ ~game.isRunning

\* the entities that are alive with an active InputReceiver and an ActionInput
ActiveReceivers ==
  {e \in Range(entities) :
     /\ hasComponentIn(WorldNow, e, "InputReceiver")
     /\ The(componentIn(WorldNow, e, "InputReceiver")).active
     /\ hasComponentIn(WorldNow, e, "ActionInput")}

\* the ActionInput of entity
ActionOf(entity) == The(componentIn(WorldNow, entity, "ActionInput"))

\* C36: a frame of the Snake game leaves, in every entity with an active
\* InputReceiver and an ActionInput that outlives the frame, action equal to the
\* store's action and actionJustPressed true exactly if the store's action is
\* true and the entity's action was false at the end of the previous frame;
\* actionJustPressed is never true after two consecutive frames.
C36_JustPressed ==
  [][lastCall'.op = "frame" =>
       \A e \in ActiveReceivers \cap Range(entities') :
         /\ ActionOf(e)'.action = lastCall'.hit
         /\ ActionOf(e)'.actionJustPressed <=> (lastCall'.hit /\ ~ActionOf(e).action)
         /\ lastCall.op = "frame" =>
              ~(ActionOf(e).actionJustPressed /\ ActionOf(e)'.actionJustPressed)]_vars

\* the second of two frames in which the action is held: the entity's action is
\* true and actionJustPressed is false again
C36_Witness ==
  /\ lastCall = Call("frame", TRUE)
  /\ \E e \in ActiveReceivers :
       ActionOf(e).action /\ ~ActionOf(e).actionJustPressed

\* the entities that are alive with a SnakeSegment and a GridPosition
Snakes ==
  {e \in Range(entities) :
     /\ hasComponentIn(WorldNow, e, "SnakeSegment")
     /\ hasComponentIn(WorldNow, e, "GridPosition")}

SegmentOf(entity) == The(componentIn(WorldNow, entity, "SnakeSegment"))

PositionOf(entity) == The(componentIn(WorldNow, entity, "GridPosition"))

\* C37: whenever a frame of the Snake game moves the head, the direction of
\* the move, which is the head's new SnakeSegment.direction, is not the
\* opposite of the SnakeSegment.direction the head had before the frame, and
\* the head has moved one cell in that direction.
C37_NoReversal ==
  [][lastCall'.op = "frame" =>
       \A e \in Snakes \cap Range(entities') :
         PositionOf(e)' # PositionOf(e) =>
           /\ SegmentOf(e)'.direction # Opposite(SegmentOf(e).direction)
           /\ PositionOf(e)'.col - PositionOf(e).col =
                (CASE SegmentOf(e)'.direction = "LEFT" -> -1
                   [] SegmentOf(e)'.direction = "RIGHT" -> 1
                   [] OTHER -> 0)
           /\ PositionOf(e)'.row - PositionOf(e).row =
                (CASE SegmentOf(e)'.direction = "UP" -> -1
                   [] SegmentOf(e)'.direction = "DOWN" -> 1
                   [] OTHER -> 0)]_vars

\* the head has turned and moved: it went right, then down, then left, while
\* the store's direction is written to its DirectionInput in every frame
C37_Witness ==
  /\ lastCall.op = "frame"
  /\ \E e \in Snakes :
       /\ SegmentOf(e).direction = "LEFT"
       /\ PositionOf(e) = [col |-> 0, row |-> 1]
       /\ ~resources["gameOver"]

====
